---- MODULE Spec2Model ----
(***************************************************************************)
(* Channel-map editing and electrode selection of the Neuropixels probe    *)
(* description (chmap.probe_npx).                                          *)
(*                                                                         *)
(* NpxProbeDesp (desp.py) and the selection loop (select_weaker_debug.py)  *)
(* are translated from their code.  ChannelMap / e2cb (probe_npx/npx.py),  *)
(* the ProbeDesp base constants (chmap/probe.py) and the helpers of the    *)
(* selector (probe_npx/select_weaker.py) are imported by those files but   *)
(* their code is not part of the sources at hand: they are modelled from   *)
(* the specification (sections 3, 4.1 and 4.3).                            *)
(***************************************************************************)
EXTENDS Integers, Sequences, FiniteSets, TLC

(***************************************************************************)
(* Bounds of the model: a scaled-down probe type and the number of         *)
(* electrodes present in the channel map handed to a selection run.        *)
(***************************************************************************)
NChannels == 2

NRowShank == 2

MaxPre == 1

\* candidate lists and batches handed to invalid_electrodes
MaxCand == 3

MaxBatch == 2

\* shank counts of the probe types handed to all_electrodes
MaxShank == 2

\* rows of the record arrays handed to load_blueprint
MaxRows == 2
\* the electrodes selected in one data source of the probe view
MaxSel == 2
\* the steps a history holds at most
MaxHist == 2

\* scripts of the blueprint script view, yields of a generator script and
\* runs started in a session
NScripts == 2

MaxSteps == 2

MaxRuns == 3
\* the depth of recursion at which the interpreter raises RecursionError
RecursionLimit == 3

(***************************************************************************)
(* Probe type 0 (single shank, two columns).                               *)
(***************************************************************************)
NShank == 1

NColShank == 2

probe_type ==
    [n_shank |-> NShank, n_col_shank |-> NColShank,
     n_row_shank |-> NRowShank, n_channels |-> NChannels]

(***************************************************************************)
(* ProbeDesp states and categories, and the Neuropixels density tiers.     *)
(***************************************************************************)
STATE_UNUSED == 0

STATE_USED == 1

STATE_FORBIDDEN == 2

CATE_UNSET == 0

CATE_SET == 1

CATE_FORBIDDEN == 2

CATE_LOW == 3

CATE_FULL == 11

CATE_HALF == 12

CATE_QUARTER == 13

possible_categories ==
    {CATE_UNSET, CATE_SET, CATE_FULL, CATE_HALF, CATE_QUARTER, CATE_LOW, CATE_FORBIDDEN}

None == <<>>

Channels == 0 .. (probe_type.n_channels - 1)

(***************************************************************************)
(* e2cb: electrode (shank, column, row) -> (channel, bank).                *)
(***************************************************************************)
e2cb(pt, k) ==
    LET n == k[3] * pt.n_col_shank + k[2]
    IN  <<n % pt.n_channels, n \div pt.n_channels>>

(***************************************************************************)
(* all_electrodes: the electrode universe, shank-major, then row, then     *)
(* column; each descriptor carries its key and its channel.                *)
(***************************************************************************)
all_electrodes_transposed(pt) ==
    LET per == pt.n_row_shank * pt.n_col_shank
        desp(j) ==
            LET s == j \div per
                r == (j % per) \div pt.n_col_shank
                c == j % pt.n_col_shank
            IN  [s |-> s, electrode |-> <<s, c, r>>,
                 channel |-> e2cb(pt, <<s, r, c>>)[1]]
    IN  [i \in 1 .. (pt.n_shank * per) |-> desp(i - 1)]

\* the loops nested the other way: column outside, row inside
all_electrodes_column_major(pt) ==
    LET per == pt.n_row_shank * pt.n_col_shank
        desp(j) ==
            LET s == j \div per
                c == (j % per) \div pt.n_row_shank
                r == j % pt.n_row_shank
            IN  [s |-> s, electrode |-> <<s, c, r>>,
                 channel |-> e2cb(pt, <<s, c, r>>)[1]]
    IN  [i \in 1 .. (pt.n_shank * per) |-> desp(i - 1)]

all_electrodes(pt) ==
    LET per == pt.n_row_shank * pt.n_col_shank
        desp(j) ==
            LET s == j \div per
                r == (j % per) \div pt.n_col_shank
                c == j % pt.n_col_shank
            IN  [s |-> s, electrode |-> <<s, c, r>>,
                 channel |-> e2cb(pt, <<s, c, r>>)[1]]
    IN  [i \in 1 .. (pt.n_shank * per) |-> desp(i - 1)]

Universe == all_electrodes(probe_type)

NElectrodes == Len(Universe)

Index == 1 .. NElectrodes

(***************************************************************************)
(* ChannelMap: one slot per hardware channel, None or an electrode key.    *)
(***************************************************************************)
ChannelMap_new(pt) == [c \in 0 .. (pt.n_channels - 1) |-> None]

ChannelMap_len(cm) == Cardinality({c \in DOMAIN cm : cm[c] # None})

\* ChannelMap.add_electrode(electrode, exist_ok=True): the electrode goes to
\* the slot of its channel; an occupied slot raises ChannelHasUsedError
\* carrying the occupant, unless the occupant is the electrode itself.
ChannelMap_add_electrode(pt, cm, k) ==
    LET c == e2cb(pt, k)[1]
    IN  IF cm[c] = None THEN [chmap |-> [cm EXCEPT ![c] = k], raised |-> None]
        ELSE IF cm[c] = k THEN [chmap |-> cm, raised |-> None]
        ELSE [chmap |-> cm, raised |-> cm[c]]

\* ChannelMap.del_electrode(electrode): frees the slot of the electrode's channel.
ChannelMap_del_electrode(pt, cm, k) ==
    [cm EXCEPT ![e2cb(pt, k)[1]] = None]

(***************************************************************************)
(* NpxProbeDesp                                                            *)
(***************************************************************************)
\* supported_type: the names of the probe types and their codes
supported_type ==
    [name \in {"4-Shank Neuropixels probe 2.0", "Neuropixels probe 2.0", "Neuropixels probe"} |->
        CASE name = "4-Shank Neuropixels probe 2.0" -> 24
          [] name = "Neuropixels probe 2.0" -> 21
          [] OTHER -> 0]

\* the codes of the registry of probe types
RegisteredCodes == {supported_type[name] : name \in DOMAIN supported_type}

\* the registry of probe types: the probe type of a registered integer code;
\* every other code fails with UnknownProbeType.  A code is a record with
\* its kind ("int" or "str") and its value.
PROBE_TYPE(code) ==
    IF code.kind = "int" /\ code.int \in RegisteredCodes
    THEN [err |-> "none", code |-> code.int]
    ELSE [err |-> "UnknownProbeType", code |-> -1]

\* ChannelMap(probe_type): an empty channel map of the probe type given by a
\* probe type, a channel map or a code
ChannelMap_init(arg) ==
    IF arg.kind \in {"ProbeType", "ChannelMap"}
    THEN [err |-> "none", code |-> arg.int]
    ELSE PROBE_TYPE(arg)

\* self.supported_type.get(probe_type, probe_type)
supported_type_get(arg) ==
    IF arg.kind = "str" /\ arg.str \in DOMAIN supported_type
    THEN [kind |-> "int", int |-> supported_type[arg.str], str |-> ""]
    ELSE arg

\* an unknown code taken as the default probe type
new_channelmap_default_type(arg) ==
    IF arg.kind = "str" /\ arg.str \notin DOMAIN supported_type
    THEN ChannelMap_init([kind |-> "int", int |-> 24, str |-> ""])
    ELSE ChannelMap_init(supported_type_get(arg))

\* new_channelmap: a name of supported_type is replaced by its code; the
\* channel map is made of the result, or of the probe type of a channel map.
new_channelmap(arg) ==
    IF arg.kind \in {"int", "str"}
    THEN ChannelMap_init(supported_type_get(arg))
    ELSE ChannelMap_init(arg)

\* the head of all_electrodes: the probe type of an integer code, of a channel
\* map or a probe type itself; anything else is a TypeError.
all_electrodes_probe_type(arg) ==
    CASE arg.kind = "int" -> PROBE_TYPE(arg)
      [] arg.kind \in {"ChannelMap", "ProbeType"} -> [err |-> "none", code |-> arg.int]
      [] OTHER -> [err |-> "TypeError", code |-> -1]

\* ProbeDesp.get_electrode: the place in the list of the first electrode
\* with key k, 0 (None) when the list has none
get_electrode(electrodes, k) ==
    LET hits == {n \in DOMAIN electrodes : electrodes[n].electrode = k}
    IN  IF hits = {} THEN 0 ELSE CHOOSE n \in hits : \A m \in hits : n <= m

\* the descriptors numbered by their place in the result
all_channels_compact(cm, electrodes) ==
    LET slots == [n \in 1 .. Cardinality(DOMAIN cm) |-> n - 1]
        found(c) == get_electrode(electrodes.list, cm[c])
        listed == SelectSeq(slots, LAMBDA c :
                      cm[c] # None /\ (electrodes.given => found(c) # 0))
    IN  [n \in DOMAIN listed |->
            IF electrodes.given
            THEN electrodes.list[found(listed[n])]
            ELSE [s |-> cm[listed[n]][1], electrode |-> cm[listed[n]], channel |-> n - 1]]

\* all_channels: the slots are enumerated in channel order; an occupied slot
\* gives a new descriptor with the slot's index as channel or, when a list of
\* electrodes is given (electrodes.given), the electrode of the list with the
\* slot's key, and nothing when the list has none.
all_channels(cm, electrodes) ==
    LET slots == [n \in 1 .. Cardinality(DOMAIN cm) |-> n - 1]
        found(c) == get_electrode(electrodes.list, cm[c])
        listed == SelectSeq(slots, LAMBDA c :
                      cm[c] # None /\ (electrodes.given => found(c) # 0))
    IN  [n \in DOMAIN listed |->
            IF electrodes.given
            THEN electrodes.list[found(listed[n])]
            ELSE [s |-> cm[listed[n]][1], electrode |-> cm[listed[n]], channel |-> listed[n]]]

\* valid as soon as one channel is occupied
is_valid_nonempty(cm) == ChannelMap_len(cm) > 0

is_valid(cm) == ChannelMap_len(cm) = probe_type.n_channels

\* the overwrite branch without the eviction of the occupant
add_electrode_no_evict(cm, e, overwrite) ==
    LET r == ChannelMap_add_electrode(probe_type, cm, e.electrode)
    IN  IF r.raised = None THEN [chmap |-> r.chmap, err |-> "none"]
        ELSE IF overwrite
             THEN LET r2 == ChannelMap_add_electrode(probe_type, cm, e.electrode)
                  IN  [chmap |-> r2.chmap,
                       err |-> IF r2.raised = None THEN "none" ELSE "ChannelHasUsedError"]
             ELSE [chmap |-> cm, err |-> "none"]

\* the overwrite branch that evicts the occupant and does not insert again
add_electrode_evict_only(cm, e, overwrite) ==
    LET r == ChannelMap_add_electrode(probe_type, cm, e.electrode)
    IN  IF r.raised = None THEN [chmap |-> r.chmap, err |-> "none"]
        ELSE IF overwrite
             THEN [chmap |-> ChannelMap_del_electrode(probe_type, cm, r.raised), err |-> "none"]
             ELSE [chmap |-> cm, err |-> "none"]

\* the except branch taken as overwrite whatever the flag
add_electrode_always_overwrite(cm, e, overwrite) ==
    LET r == ChannelMap_add_electrode(probe_type, cm, e.electrode)
    IN  IF r.raised = None THEN [chmap |-> r.chmap, err |-> "none"]
        ELSE LET d  == ChannelMap_del_electrode(probe_type, cm, r.raised)
                 r2 == ChannelMap_add_electrode(probe_type, d, e.electrode)
             IN  [chmap |-> r2.chmap,
                  err |-> IF r2.raised = None THEN "none" ELSE "ChannelHasUsedError"]

\* add_electrode: try the insertion; ChannelHasUsedError is caught, and only
\* with overwrite the occupant it carries is deleted and the insertion
\* repeated (outside the try: a second error would propagate).
add_electrode(cm, e, overwrite) ==
    LET r == ChannelMap_add_electrode(probe_type, cm, e.electrode)
    IN  IF r.raised = None THEN [chmap |-> r.chmap, err |-> "none"]
        ELSE IF overwrite
             THEN LET d  == ChannelMap_del_electrode(probe_type, cm, r.raised)
                      r2 == ChannelMap_add_electrode(probe_type, d, e.electrode)
                  IN  [chmap |-> r2.chmap,
                       err |-> IF r2.raised = None THEN "none" ELSE "ChannelHasUsedError"]
             ELSE [chmap |-> cm, err |-> "none"]

\* the deletion that empties every slot
del_electrode_clears(cm, e) == [c \in DOMAIN cm |-> None]

del_electrode(cm, e) == ChannelMap_del_electrode(probe_type, cm, e.electrode)

\* the clear that leaves the first channel as it is
clear_electrode_but_first(cm) == [c \in DOMAIN cm |-> IF c = 0 THEN cm[c] ELSE None]

\* del chmap.channels[:] : every slot is emptied.
clear_electrode(cm) == [c \in DOMAIN cm |-> None]

probe_rule(cm, e1, e2) == e1.channel # e2.channel

\* the candidates on e's channel without e itself
invalid_electrodes_without_self(cm, e, electrodes) ==
    SelectSeq(electrodes, LAMBDA it : e.channel = it.channel /\ it # e)

\* invalid_electrodes with a single electrode e: the candidates on e's
\* channel, in the order of the candidate list.
invalid_electrodes(cm, e, electrodes) ==
    SelectSeq(electrodes, LAMBDA it : e.channel = it.channel)

\* the batch that looks at its first electrode only
invalid_electrodes_batch_first_only(cm, es, electrodes) ==
    LET channels == {es[n].channel : n \in DOMAIN es \cap {1}}
    IN  SelectSeq(electrodes, LAMBDA it : it.channel \in channels)

\* invalid_electrodes with an iterable of electrodes: the channels of the
\* batch are collected into a set, and the candidates on one of them are
\* returned in the order of the candidate list.
invalid_electrodes_batch(cm, es, electrodes) ==
    LET channels == {es[n].channel : n \in DOMAIN es}
    IN  SelectSeq(electrodes, LAMBDA it : it.channel \in channels)

(***************************************************************************)
(* check_probe of the script actions.  The probe classes are named by their *)
(* class name; a request names a class (kind "type") or gives a string,     *)
(* which is a class name or a name get_probe_desp resolves.                 *)
(***************************************************************************)
ProbeClasses == {"NpxProbeDesp", "OtherProbeDesp"}

NoCode == -1

\* channelmap_code: None for what is no channel map, else the code of its
\* probe type
channelmap_code(cm) == IF ~cm.is_channelmap THEN NoCode ELSE cm.code

\* get_probe_desp: the probe class of a registered family name; it fails for
\* any other string
get_probe_desp(name) ==
    CASE name = "npx" -> [err |-> "none", class |-> "NpxProbeDesp"]
      [] name = "other" -> [err |-> "none", class |-> "OtherProbeDesp"]
      [] OTHER -> [err |-> "RuntimeError", class |-> "none"]

\* the check that does not look at the channel map
check_probe_ignores_code(current_probe, current_chmap, probe, chmap_code) ==
    LET resolved == IF probe.kind = "str" /\ current_probe # probe.name
                       /\ get_probe_desp(probe.name).err = "none"
                    THEN [kind |-> "type", name |-> get_probe_desp(probe.name).class]
                    ELSE probe
        test == current_probe = resolved.name
    IN  IF test THEN [err |-> "none", probe |-> resolved, chmap_code |-> chmap_code]
        ELSE [err |-> "RequestChannelmapTypeError", probe |-> resolved, chmap_code |-> chmap_code]

\* check_probe: the class of the current probe is tested against the class,
\* or its name against the string and then against the class the string
\* resolves to; with a code, the code of the current channel map has to be
\* the requested one.  The error carries the probe (the resolved class when
\* the string was resolved) and the code.
check_probe(current_probe, current_chmap, probe, chmap_code) ==
    LET resolved == IF probe.kind = "str" /\ current_probe # probe.name
                       /\ get_probe_desp(probe.name).err = "none"
                    THEN [kind |-> "type", name |-> get_probe_desp(probe.name).class]
                    ELSE probe
        test1 == current_probe = resolved.name
        test  == IF test1 /\ chmap_code # NoCode
                 THEN LET code == channelmap_code(current_chmap)
                      IN  IF code = NoCode THEN FALSE ELSE chmap_code = code
                 ELSE test1
    IN  IF test THEN [err |-> "none", probe |-> resolved, chmap_code |-> chmap_code]
        ELSE [err |-> "RequestChannelmapTypeError", probe |-> resolved, chmap_code |-> chmap_code]

\* the rows written with row and column exchanged
save_blueprint_row_column(blueprint) ==
    [i \in DOMAIN blueprint |->
        <<blueprint[i].electrode[1], blueprint[i].electrode[3], blueprint[i].electrode[2],
          blueprint[i].state, blueprint[i].category>>]

\* save_blueprint: one row (shank, column, row, state, category) per
\* electrode, in the order of the blueprint.
save_blueprint(blueprint) ==
    [i \in DOMAIN blueprint |->
        <<blueprint[i].electrode[1], blueprint[i].electrode[2], blueprint[i].electrode[3],
          blueprint[i].state, blueprint[i].category>>]

RECURSIVE load_rows_strict(_, _, _)
load_rows_strict(a, n, electrodes) ==
    IF n > Len(a) THEN [electrodes |-> electrodes, err |-> "none"]
    ELSE IF Len(a[n]) # 5 THEN [electrodes |-> electrodes, err |-> "ValueError"]
    ELSE LET data == a[n]
             e    == <<data[1], data[2], data[3]>>
             hits == {m \in DOMAIN electrodes : electrodes[m].electrode = e}
         IN  IF hits = {} THEN [electrodes |-> electrodes, err |-> "KeyError"]
             ELSE LET t == CHOOSE m \in hits : \A h \in hits : h <= m
                  IN  load_rows_strict(a, n + 1,
                          [electrodes EXCEPT ![t].state = data[4], ![t].category = data[5]])

\* the load that looks every key up without a default
load_blueprint_strict(a, electrodes) == load_rows_strict(a, 1, electrodes)

\* the rows n, n + 1, ... of the array: a row is unpacked into five values,
\* which fails with ValueError for another width; the electrode with the key
\* of the row (the last one of the list, as the dictionary keeps it) takes
\* the state and the category of the row, a row without electrode is passed.
RECURSIVE load_rows(_, _, _)
load_rows(a, n, electrodes) ==
    IF n > Len(a) THEN [electrodes |-> electrodes, err |-> "none"]
    ELSE IF Len(a[n]) # 5 THEN [electrodes |-> electrodes, err |-> "ValueError"]
    ELSE LET data == a[n]
             e    == <<data[1], data[2], data[3]>>
             hits == {m \in DOMAIN electrodes : electrodes[m].electrode = e}
         IN  IF hits = {} THEN load_rows(a, n + 1, electrodes)
             ELSE LET t == CHOOSE m \in hits : \A h \in hits : h <= m
                  IN  load_rows(a, n + 1,
                          [electrodes EXCEPT ![t].state = data[4], ![t].category = data[5]])

\* the load that starts from electrodes without state and category
load_blueprint_resets(a, electrodes) ==
    load_rows(a, 1, [n \in DOMAIN electrodes |->
                        [electrodes[n] EXCEPT !.state = STATE_UNUSED, !.category = CATE_UNSET]])

\* load_blueprint with a record array and a list of electrodes
load_blueprint(a, electrodes) == load_rows(a, 1, electrodes)

(***************************************************************************)
(* State.                                                                  *)
(*   chmap     the channel map being edited / filled by the selection      *)
(*   last      the last operation: its arguments, the channel map before   *)
(*             it, the error it raised and, for a pick, its outcome        *)
(*   blueprint category of every electrode (index into the universe)       *)
(*   chmap0    the channel map handed to electrode_select                  *)
(*   cand      the selector's candidates: state and prob per electrode     *)
(*   pc        position of the selection run                               *)
(*   count     picks made by the loop                                      *)
(*   data      the loop's diagnostics, one row (n, priority, prob) per     *)
(*             pick (the entropy column is a real-valued diagnostic and    *)
(*             is not represented)                                         *)
(*   err       the error the run ended with                                *)
(*   script_select   the script selected in the blueprint script view      *)
(*   running_script  _running_script: per script "absent", "gen" (its      *)
(*                   generator) or "interrupt" (a KeyboardInterrupt)       *)
(*   run       per script, its latest run: status, steps advanced, changes *)
(*             made to its blueprint functions, whether a resumption is    *)
(*             scheduled, the step count at which a stop was requested,    *)
(*             whether the interrupt was thrown in, and how often its      *)
(*             blueprint was applied to the editor                         *)
(*   started   runs started so far                                         *)
(*   fres      the last call of a pure function: arguments and result      *)
(*   electrodes      ProbeView.electrodes: None before the first reset     *)
(*                   (channelmap is None then as well), afterwards the     *)
(*                   electrodes of the channel map with their states;      *)
(*                   chmap is the view's channelmap                        *)
(*   history   RecordManager._history: per name the history, if it exists  *)
(*   name      RecordManager.name, the name of the current history         *)
(*   disable   RecordManager.disable                                       *)
(*   is_replaying    RecordManager._is_replaying                           *)
(*   replay_pc       the view whose replay_records is being run by         *)
(*                   replay, 0 when no replay is under way                 *)
(***************************************************************************)
VARIABLES chmap, last, blueprint, chmap0, cand, pc, count, data, err,
          script_select, running_script, run, started, fres,
          electrodes, history, name, disable, is_replaying, replay_pc

vars == <<chmap, last, blueprint, chmap0, cand, pc, count, data, err,
          script_select, running_script, run, started, fres,
          electrodes, history, name, disable, is_replaying, replay_pc>>

coreVars == <<chmap, last, blueprint, chmap0, cand, pc, count, data, err>>

scriptVars == <<script_select, running_script, run, started>>

recVars == <<history, name, disable, is_replaying, replay_pc>>

viewVars == <<electrodes, history, name, disable, is_replaying, replay_pc>>

extVars == <<script_select, running_script, run, started, fres, viewVars>>

Scripts == 1 .. NScripts

NoRun == [status |-> "none", steps |-> 0, work |-> 0, scheduled |-> FALSE,
          cancel_at |-> -1, thrown |-> FALSE, applied |-> 0]

NoCall == [op |-> "none", pt |-> probe_type, e |-> 0, S |-> <<>>, cands |-> <<>>, out |-> <<>>]

\* the names a history can have; the manager starts with the name ''
HistoryNames == {"", "a"}

\* no history of that name in _history
NoHistory == [exists |-> FALSE, frozen |-> FALSE, steps |-> <<>>]

\* the blueprint script view as constructed, and no function called yet
InitExt ==
    /\ script_select = 1
    /\ running_script = [s \in Scripts |-> "absent"]
    /\ run = [s \in Scripts |-> NoRun]
    /\ started = 0
    /\ fres = NoCall
    /\ electrodes = None
    /\ history = [n \in HistoryNames |-> NoHistory]
    /\ name = ""
    /\ disable = FALSE
    /\ is_replaying = FALSE
    /\ replay_pc = 0

selVars == <<blueprint, chmap0, cand, pc, count, data, err>>

NoOp == [op |-> "none", e |-> 0, overwrite |-> FALSE, pre |-> ChannelMap_new(probe_type),
         err |-> "none", outcome |-> "none"]

(***************************************************************************)
(* Editing a channel map: add_electrode, del_electrode, clear_electrode.   *)
(***************************************************************************)
InitEdit ==
    /\ chmap = ChannelMap_new(probe_type)
    /\ last = NoOp
    /\ blueprint = [i \in Index |-> CATE_UNSET]
    /\ chmap0 = ChannelMap_new(probe_type)
    /\ cand = [i \in Index |-> [state |-> STATE_UNUSED, prob |-> 0]]
    /\ pc = "edit"
    /\ count = 0
    /\ data = <<>>
    /\ err = "none"
    /\ InitExt

AddElectrode ==
    /\ pc = "edit"
    /\ \E i \in Index, ow \in BOOLEAN :
          LET r == add_electrode(chmap, Universe[i], ow)
          IN  /\ chmap' = r.chmap
              /\ last' = [op |-> "add_electrode", e |-> i, overwrite |-> ow,
                          pre |-> chmap, err |-> r.err, outcome |-> "none"]
    /\ UNCHANGED <<selVars, extVars>>

DelElectrode ==
    /\ pc = "edit"
    /\ \E i \in Index :
          /\ chmap' = del_electrode(chmap, Universe[i])
          /\ last' = [op |-> "del_electrode", e |-> i, overwrite |-> FALSE,
                      pre |-> chmap, err |-> "none", outcome |-> "none"]
    /\ UNCHANGED <<selVars, extVars>>

ClearElectrode ==
    /\ pc = "edit"
    /\ chmap' = clear_electrode(chmap)
    /\ last' = [op |-> "clear_electrode", e |-> 0, overwrite |-> FALSE,
                pre |-> chmap, err |-> "none", outcome |-> "none"]
    /\ UNCHANGED <<selVars, extVars>>

NextEdit == AddElectrode \/ DelElectrode \/ ClearElectrode

SpecEdit == InitEdit /\ [][NextEdit]_vars

(***************************************************************************)
(* Electrode selection (selector 'weaker').                                *)
(***************************************************************************)
\* policy weight of a category: the density tiers outweigh the sparser ones,
\* low priority is below them and above zero, unset / forbidden weigh nothing.
policy_mapping_priority(category) ==
    CASE category = CATE_SET     -> 5
      [] category = CATE_FULL    -> 4
      [] category = CATE_HALF    -> 3
      [] category = CATE_QUARTER -> 2
      [] category = CATE_LOW     -> 1
      [] OTHER                   -> 0

\* number of electrodes the candidates hold as selected
selected_electrode(cd) == Cardinality({i \in DOMAIN cd : cd[i].state = STATE_USED})

\* a candidate: category set and not forbidden, not selected, not excluded
eligible(bp, cd, i) ==
    /\ bp[i] \notin {CATE_UNSET, CATE_FORBIDDEN}
    /\ cd[i].state = STATE_UNUSED

\* i is picked before j: higher (policy weight, prob), then the input order
picked_before(bp, cd, i, j) ==
    LET wi == policy_mapping_priority(bp[i])
        wj == policy_mapping_priority(bp[j])
    IN  \/ wi > wj
        \/ wi = wj /\ cd[i].prob > cd[j].prob
        \/ wi = wj /\ cd[i].prob = cd[j].prob /\ i <= j

\* picks without looking at the category: any electrode not yet selected
pick_electrode_any_category(bp, cd) ==
    LET pool == {i \in DOMAIN cd : cd[i].state = STATE_UNUSED}
    IN  IF pool = {} THEN 0
        ELSE CHOOSE i \in pool : \A j \in pool : picked_before(bp, cd, i, j)

\* the pick that takes the last of the best candidates instead of the first
pick_electrode_last_of_equals(bp, cd) ==
    LET pool == {i \in DOMAIN cd : eligible(bp, cd, i)}
        w(i) == policy_mapping_priority(bp[i])
        later(i, j) ==
            \/ w(i) > w(j)
            \/ w(i) = w(j) /\ cd[i].prob > cd[j].prob
            \/ w(i) = w(j) /\ cd[i].prob = cd[j].prob /\ i >= j
    IN  IF pool = {} THEN 0
        ELSE CHOOSE i \in pool : \A j \in pool : later(i, j)

\* pick_electrode: the best candidate, 0 (None) when no candidate remains
pick_electrode(bp, cd) ==
    LET pool == {i \in DOMAIN cd : eligible(bp, cd, i)}
    IN  IF pool = {} THEN 0
        ELSE CHOOSE i \in pool : \A j \in pool : picked_before(bp, cd, i, j)

\* the reduced prob of a candidate that conflicts with a selected electrode
reduce_prob(p) == p \div 2

\* update_prob: add the picked electrode e to the channel map.  A conflict
\* (the insertion without overwrite left another occupant in place) is
\* resolved by priority: an occupant of lower or equal policy weight is
\* overwritten, otherwise e is skipped and excluded.  When e is selected,
\* the other electrodes of its channel are excluded and their prob reduced.
\* the update that evicts whatever holds the channel
update_prob_always_evict(bp, cm, cd, i) ==
    LET e    == Universe[i]
        r2   == add_electrode(cm, e, TRUE)
        conflict == cm[e.channel] # None /\ cm[e.channel] # e.electrode
        inv  == invalid_electrodes(r2.chmap, e, Universe)
        keys == {inv[n].electrode : n \in DOMAIN inv}
    IN  [chmap |-> r2.chmap,
         err   |-> r2.err,
         outcome |-> IF ~conflict THEN "add" ELSE "overwrite",
         cand  |-> [j \in DOMAIN cd |->
                      IF j = i
                      THEN [cd[j] EXCEPT !.state = STATE_USED]
                      ELSE IF Universe[j].electrode \in keys
                      THEN [state |-> STATE_FORBIDDEN, prob |-> reduce_prob(cd[j].prob)]
                      ELSE cd[j]]]

\* the update that leaves the prob of the conflicting candidates as it is
update_prob_keeps_prob(bp, cm, cd, i) ==
    LET e    == Universe[i]
        r1   == add_electrode(cm, e, FALSE)
        occ  == r1.chmap[e.channel]
        conflict == occ # e.electrode
        evict == conflict /\
                 \A j \in Index : Universe[j].electrode = occ =>
                     policy_mapping_priority(bp[j]) <= policy_mapping_priority(bp[i])
        r2   == IF conflict /\ evict THEN add_electrode(cm, e, TRUE) ELSE r1
        selected == r2.chmap[e.channel] = e.electrode
        inv  == invalid_electrodes(r2.chmap, e, Universe)
        keys == {inv[n].electrode : n \in DOMAIN inv}
    IN  [chmap |-> r2.chmap,
         err   |-> r2.err,
         outcome |-> IF ~conflict THEN "add" ELSE IF selected THEN "overwrite" ELSE "skip",
         cand  |-> [j \in DOMAIN cd |->
                      IF j = i
                      THEN [cd[j] EXCEPT !.state = IF selected THEN STATE_USED ELSE STATE_FORBIDDEN]
                      ELSE IF selected /\ Universe[j].electrode \in keys
                      THEN [cd[j] EXCEPT !.state = STATE_FORBIDDEN]
                      ELSE cd[j]]]

\* the update that leaves a skipped candidate in the pool
update_prob_retries_skipped(bp, cm, cd, i) ==
    LET e    == Universe[i]
        r1   == add_electrode(cm, e, FALSE)
        occ  == r1.chmap[e.channel]
        conflict == occ # e.electrode
        evict == conflict /\
                 \A j \in Index : Universe[j].electrode = occ =>
                     policy_mapping_priority(bp[j]) <= policy_mapping_priority(bp[i])
        r2   == IF conflict /\ evict THEN add_electrode(cm, e, TRUE) ELSE r1
        selected == r2.chmap[e.channel] = e.electrode
        inv  == invalid_electrodes(r2.chmap, e, Universe)
        keys == {inv[n].electrode : n \in DOMAIN inv}
    IN  [chmap |-> r2.chmap,
         err   |-> r2.err,
         outcome |-> IF ~conflict THEN "add" ELSE IF selected THEN "overwrite" ELSE "skip",
         cand  |-> [j \in DOMAIN cd |->
                      IF j = i
                      THEN [cd[j] EXCEPT !.state = IF selected THEN STATE_USED ELSE @]
                      ELSE IF selected /\ Universe[j].electrode \in keys
                      THEN [state |-> STATE_FORBIDDEN, prob |-> reduce_prob(cd[j].prob)]
                      ELSE cd[j]]]

update_prob(bp, cm, cd, i) ==
    LET e    == Universe[i]
        r1   == add_electrode(cm, e, FALSE)
        occ  == r1.chmap[e.channel]
        conflict == occ # e.electrode
        evict == conflict /\
                 \A j \in Index : Universe[j].electrode = occ =>
                     policy_mapping_priority(bp[j]) <= policy_mapping_priority(bp[i])
        r2   == IF conflict /\ evict THEN add_electrode(cm, e, TRUE) ELSE r1
        selected == r2.chmap[e.channel] = e.electrode
        inv  == invalid_electrodes(r2.chmap, e, Universe)
        keys == {inv[n].electrode : n \in DOMAIN inv}
    IN  [chmap |-> r2.chmap,
         err   |-> r2.err,
         outcome |-> IF ~conflict THEN "add" ELSE IF selected THEN "overwrite" ELSE "skip",
         cand  |-> [j \in DOMAIN cd |->
                      IF j = i
                      THEN [cd[j] EXCEPT !.state = IF selected THEN STATE_USED ELSE STATE_FORBIDDEN]
                      ELSE IF selected /\ Universe[j].electrode \in keys
                      THEN [state |-> STATE_FORBIDDEN, prob |-> reduce_prob(cd[j].prob)]
                      ELSE cd[j]]]

\* the blueprints and channel maps a run is started with: every assignment
\* of the base categories, and every assignment of the density tiers
InitCategories == {CATE_UNSET, CATE_LOW, CATE_SET, CATE_FORBIDDEN}

DensityCategories == {CATE_FULL, CATE_HALF, CATE_QUARTER}

InitBlueprints == [Index -> InitCategories] \cup [Index -> DensityCategories]

ValidChannelMaps ==
    {cm \in [Channels -> {None} \cup {Universe[i].electrode : i \in Index}] :
        \A c \in Channels : cm[c] # None => e2cb(probe_type, cm[c])[1] = c}

InitSelect ==
    /\ blueprint \in InitBlueprints
    /\ chmap0 \in {cm \in ValidChannelMaps : ChannelMap_len(cm) <= MaxPre}
    /\ chmap = chmap0
    /\ last = NoOp
    /\ cand = [i \in Index |-> [state |-> STATE_UNUSED, prob |-> 0]]
    /\ pc = "ready"
    /\ count = 0
    /\ data = <<>>
    /\ err = "none"
    /\ InitExt

\* electrode_select, up to the loop: the candidates take their prob from the
\* policy weight; the electrodes of the channel map are the selected ones,
\* except the forbidden ones, which are never selected.
electrode_select ==
    /\ pc = "ready"
    /\ LET keep(c) == /\ chmap[c] # None
                      /\ \A j \in Index : Universe[j].electrode = chmap[c] =>
                             blueprint[j] # CATE_FORBIDDEN
       IN  /\ chmap' = [c \in Channels |-> IF keep(c) THEN chmap[c] ELSE None]
           /\ cand' = [i \in Index |->
                         [state |-> IF chmap'[Universe[i].channel] = Universe[i].electrode
                                    THEN STATE_USED ELSE STATE_UNUSED,
                          prob  |-> policy_mapping_priority(blueprint[i])]]
    /\ pc' = "loop"
    /\ last' = [NoOp EXCEPT !.op = "electrode_select", !.pre = chmap]
    /\ UNCHANGED <<blueprint, chmap0, count, data, err, extVars>>

\* the statements after the loop: the diagnostics are turned into an array
\* and its columns are indexed, which needs a row.
plot(d) == IF Len(d) = 0 THEN "IndexError" ELSE "none"

\* the loop condition with the bound off by one
loop_continues_off_by_one(n) == n + 1 < probe_type.n_channels

\* the loop condition: fewer electrodes selected than the probe has channels
loop_continues(n) == n < probe_type.n_channels

\* one iteration of the loop that picks an electrode
select_loop_pick ==
    /\ pc = "loop"
    /\ loop_continues(selected_electrode(cand))
    /\ LET e == pick_electrode(blueprint, cand)
       IN  /\ e # 0
           /\ LET u == update_prob(blueprint, chmap, cand, e)
              IN  /\ chmap' = u.chmap
                  /\ cand' = u.cand
                  /\ count' = count + 1
                  /\ data' = Append(data, <<selected_electrode(cand),
                                            policy_mapping_priority(blueprint[e]),
                                            cand[e].prob>>)
                  /\ last' = [op |-> "pick", e |-> e, overwrite |-> FALSE, pre |-> chmap,
                              err |-> u.err, outcome |-> u.outcome]
                  /\ pc' = IF u.err = "none" THEN "loop" ELSE "error"
                  /\ err' = u.err
    /\ UNCHANGED <<blueprint, chmap0, extVars>>

\* the loop ends: every channel is selected, or no candidate is left
select_loop_exit ==
    /\ pc = "loop"
    /\ \/ ~loop_continues(selected_electrode(cand))
       \/ pick_electrode(blueprint, cand) = 0
    /\ err' = plot(data)
    /\ pc' = IF err' = "none" THEN "done" ELSE "error"
    /\ last' = [NoOp EXCEPT !.op = "exit", !.pre = chmap]
    /\ UNCHANGED <<chmap, blueprint, chmap0, cand, count, data, extVars>>

\* KeyboardInterrupt between two iterations: caught, the loop is left
select_loop_interrupt ==
    /\ pc = "loop"
    /\ err' = plot(data)
    /\ pc' = IF err' = "none" THEN "done" ELSE "error"
    /\ last' = [NoOp EXCEPT !.op = "KeyboardInterrupt", !.pre = chmap]
    /\ UNCHANGED <<chmap, blueprint, chmap0, cand, count, data, extVars>>

NextSelect ==
    \/ electrode_select
    \/ select_loop_pick
    \/ select_loop_exit
    \/ select_loop_interrupt

SpecSelect == InitSelect /\ [][NextSelect]_vars

(***************************************************************************)
(* The script runner of the blueprint script view.  A script is a plain    *)
(* function or a generator; a generator is advanced one step per callback  *)
(* of the event loop (gen.send), and the Run button of a script that is    *)
(* registered in _running_script replaces its registration by a            *)
(* KeyboardInterrupt, which the next callback throws into the generator.   *)
(* What the script does when called, advanced or interrupted is an input.  *)
(***************************************************************************)
CallOutcomes == {"function", "generator", "error"}

SendOutcomes == {"yield", "StopIteration", "KeyboardInterrupt", "error"}

ThrowOutcomes == {"KeyboardInterrupt", "StopIteration", "yield", "error"}

\* script in self._running_script
in_running_script(rs, s) == rs[s] # "absent"

\* a runner that never sees the stop request
is_interrupt_never(flag) == FALSE

\* isinstance(self._running_script.get(script.name), KeyboardInterrupt)
is_interrupt(flag) == flag = "interrupt"

\* _run_script_done: the blueprint of the run is applied to the editor
run_script_done(r) == [r EXCEPT !.applied = @ + 1]

\* _run_script_generator_interrupt: the registration is deleted
run_script_generator_interrupt(r) ==
    [run |-> [r EXCEPT !.status = "interrupted", !.scheduled = FALSE],
     reg |-> "absent"]

\* _run_script_generator_finish: the registration is deleted and the
\* blueprint applied
run_script_generator_finish(r) ==
    [run |-> run_script_done([r EXCEPT !.status = "finished", !.scheduled = FALSE]),
     reg |-> "absent"]

\* _run_script_generator_next, with what its caller does of the exception
\* gen.send leaves with: the generator is registered and advanced; when it
\* yields, the next callback is scheduled.  An error other than
\* StopIteration and KeyboardInterrupt leaves the registration behind.
run_script_generator_next(r, send) ==
    CASE send = "yield" ->
            [run |-> [r EXCEPT !.status = "suspended", !.steps = @ + 1,
                               !.work = @ + 1, !.scheduled = TRUE],
             reg |-> "gen"]
      [] send = "StopIteration" ->
            run_script_generator_finish([r EXCEPT !.work = @ + 1])
      [] send = "KeyboardInterrupt" ->
            run_script_generator_interrupt(r)
      [] OTHER ->
            [run |-> [r EXCEPT !.status = "failed", !.scheduled = FALSE],
             reg |-> "gen"]

\* _run_script_generator: a registered KeyboardInterrupt is thrown into the
\* generator, otherwise the generator is advanced.  A generator that returns
\* or yields on the interrupt is finished like one that came to its end.
run_script_generator(r, flag, send, throw) ==
    IF is_interrupt(flag)
    THEN LET t == [r EXCEPT !.thrown = TRUE]
         IN  CASE throw = "KeyboardInterrupt" -> run_script_generator_interrupt(t)
               [] throw \in {"StopIteration", "yield"} -> run_script_generator_finish(t)
               [] OTHER -> [run |-> [t EXCEPT !.status = "failed", !.scheduled = FALSE],
                            reg |-> flag]
    ELSE run_script_generator_next(r, send)

\* run_script: the script is called; a plain function has done its work on
\* return, a generator gets its first step.  An error is logged and the run
\* given up.
run_script(flag, call, send) ==
    CASE call = "function" ->
            [run |-> run_script_done([NoRun EXCEPT !.status = "finished", !.work = 1]),
             reg |-> flag]
      [] call = "generator" ->
            run_script_generator(NoRun, flag, send, "KeyboardInterrupt")
      [] OTHER ->
            [run |-> [NoRun EXCEPT !.status = "failed"], reg |-> flag]

\* the user selects another script
on_script_select ==
    /\ \E s \in Scripts :
          /\ s # script_select
          /\ script_select' = s
    /\ UNCHANGED <<running_script, run, started, fres, coreVars, viewVars>>

\* the Run button on a registered script: its registration becomes a
\* KeyboardInterrupt
on_run_script_stop ==
    LET s == script_select
    IN  /\ in_running_script(running_script, s)
        /\ running_script' = [running_script EXCEPT ![s] = "interrupt"]
        /\ run' = [run EXCEPT ![s].cancel_at =
                      IF run[s].scheduled /\ @ = -1 THEN run[s].steps ELSE @]
        /\ UNCHANGED <<script_select, started, fres, coreVars, viewVars>>

\* the Run button on a script that is not registered: run_script
on_run_script_start ==
    LET s == script_select
    IN  /\ ~in_running_script(running_script, s)
        /\ started < MaxRuns
        /\ started' = started + 1
        /\ \E call \in CallOutcomes, send \in SendOutcomes :
              LET res == run_script(running_script[s], call, send)
              IN  /\ run' = [run EXCEPT ![s] = res.run]
                  /\ running_script' = [running_script EXCEPT ![s] = res.reg]
        /\ UNCHANGED <<script_select, fres, coreVars, viewVars>>

\* the callback scheduled by run_later / run_timeout
resume ==
    /\ \E s \in Scripts :
          /\ run[s].scheduled
          /\ \E send \in SendOutcomes, throw \in ThrowOutcomes :
                /\ (send = "yield") => run[s].steps < MaxSteps
                /\ LET res == run_script_generator(run[s], running_script[s], send, throw)
                   IN  /\ run' = [run EXCEPT ![s] = res.run]
                       /\ running_script' = [running_script EXCEPT ![s] = res.reg]
    /\ UNCHANGED <<script_select, started, fres, coreVars, viewVars>>

NextScript ==
    \/ on_script_select
    \/ on_run_script_stop
    \/ on_run_script_start
    \/ resume

SpecScript == InitEdit /\ [][NextScript]_vars

(***************************************************************************)
(* Calls of the functions of NpxProbeDesp on arguments drawn from bounded  *)
(* sets: candidate lists and batches over the electrode universe, and      *)
(* small probe types.  A behaviour makes one call.                         *)
(***************************************************************************)
CandLists == UNION {[1 .. n -> Index] : n \in 0 .. MaxCand}

Batches == UNION {[1 .. n -> Index] : n \in 0 .. MaxBatch}

descs(ix) == [n \in DOMAIN ix |-> Universe[ix[n]]]

ProbeTypes ==
    [n_shank : 1 .. MaxShank, n_col_shank : 1 .. NColShank,
     n_row_shank : 1 .. NRowShank, n_channels : 1 .. NChannels]

call_invalid_electrodes ==
    /\ fres = NoCall
    /\ \E i \in Index, cs \in CandLists :
          fres' = [op |-> "invalid_electrodes", pt |-> probe_type, e |-> i,
                   S |-> <<>>, cands |-> descs(cs),
                   out |-> invalid_electrodes(chmap, Universe[i], descs(cs))]
    /\ UNCHANGED <<scriptVars, coreVars, viewVars>>

call_invalid_electrodes_batch ==
    /\ fres = NoCall
    /\ \E b \in Batches, cs \in CandLists :
          fres' = [op |-> "invalid_electrodes_batch", pt |-> probe_type, e |-> 0,
                   S |-> descs(b), cands |-> descs(cs),
                   out |-> invalid_electrodes_batch(chmap, descs(b), descs(cs))]
    /\ UNCHANGED <<scriptVars, coreVars, viewVars>>

call_all_electrodes ==
    /\ fres = NoCall
    /\ \E pt \in ProbeTypes :
          fres' = [op |-> "all_electrodes", pt |-> pt, e |-> 0,
                   S |-> <<>>, cands |-> <<>>, out |-> all_electrodes(pt)]
    /\ UNCHANGED <<scriptVars, coreVars, viewVars>>

\* an electrode of a blueprint: the descriptor with its state and category
desp(i, state, category) ==
    [s |-> Universe[i].s, electrode |-> Universe[i].electrode,
     channel |-> Universe[i].channel, state |-> state, category |-> category]

\* the electrode lists handed to all_channels: none, or a list of electrodes
\* of a blueprint
ElectrodeLists ==
    {[given |-> FALSE, list |-> <<>>]} \cup
    {[given |-> TRUE, list |-> [n \in DOMAIN cs |-> desp(cs[n], STATE_USED, CATE_SET)]] :
        cs \in CandLists}

call_all_channels ==
    /\ fres = NoCall
    /\ \E cm \in ValidChannelMaps, el \in ElectrodeLists :
          fres' = [op |-> "all_channels", cm |-> cm, electrodes |-> el,
                   out |-> all_channels(cm, el)]
    /\ UNCHANGED <<scriptVars, coreVars, viewVars>>

\* the (state, category) pairs of the blueprints handed to save and load
BlueprintValues ==
    {<<STATE_UNUSED, CATE_UNSET>>, <<STATE_USED, CATE_LOW>>,
     <<STATE_FORBIDDEN, CATE_FORBIDDEN>>, <<STATE_UNUSED, CATE_FULL>>}

reversed(q) == [n \in DOMAIN q |-> q[Len(q) + 1 - n]]

\* the blueprints over the universe, in its order or in the reverse order
Blueprints ==
    LET fwd == {[i \in Index |-> desp(i, v[i][1], v[i][2])] : v \in [Index -> BlueprintValues]}
    IN  fwd \cup {reversed(b) : b \in fwd}

\* the lists load_blueprint fills: the electrodes as all_electrodes makes
\* them, or electrodes that already carry a state and a category
Targets ==
    LET fresh == [i \in Index |-> desp(i, STATE_UNUSED, CATE_UNSET)]
        used  == [i \in Index |-> desp(i, STATE_USED, CATE_QUARTER)]
    IN  {fresh, used, reversed(fresh), reversed(used)}

\* a key outside the universe
ForeignKey == <<probe_type.n_shank, 0, 0>>

Rows ==
    {<<k[1], k[2], k[3], v[1], v[2]>> :
        k \in {Universe[i].electrode : i \in Index} \cup {ForeignKey},
        v \in BlueprintValues}

\* record arrays of up to MaxRows rows of five, four or six columns
RecordArrays ==
    LET five == UNION {[1 .. n -> Rows] : n \in 0 .. MaxRows}
    IN  [rows : five, ncol : {4, 5, 6}]

\* the array as numpy holds it: every row with the width of the array
as_array(ra) ==
    [n \in DOMAIN ra.rows |->
        IF ra.ncol = 5 THEN ra.rows[n]
        ELSE IF ra.ncol < 5 THEN SubSeq(ra.rows[n], 1, ra.ncol)
        ELSE ra.rows[n] \o [m \in 1 .. (ra.ncol - 5) |-> 0]]

\* load_blueprint(save_blueprint(b), universe)
call_save_load_blueprint ==
    /\ fres = NoCall
    /\ \E b \in Blueprints, t \in Targets :
          LET r == load_blueprint(save_blueprint(b), t)
          IN  fres' = [op |-> "save_load_blueprint", b |-> b, target |-> t,
                       a |-> save_blueprint(b), out |-> r.electrodes, err |-> r.err]
    /\ UNCHANGED <<scriptVars, coreVars, viewVars>>

call_load_blueprint ==
    /\ fres = NoCall
    /\ \E ra \in RecordArrays, t \in Targets :
          LET r == load_blueprint(as_array(ra), t)
          IN  fres' = [op |-> "load_blueprint", ncol |-> ra.ncol, target |-> t,
                       a |-> as_array(ra), out |-> r.electrodes, err |-> r.err]
    /\ UNCHANGED <<scriptVars, coreVars, viewVars>>

\* the arguments that name a probe type: integer codes and names, registered
\* or not, and probe types and channel maps of the registered codes
ProbeTypeArgs ==
    {[kind |-> "int", int |-> c, str |-> ""] : c \in RegisteredCodes \cup {1, -1}} \cup
    {[kind |-> "str", int |-> 0, str |-> n] : n \in DOMAIN supported_type \cup {"24", "unknown"}} \cup
    {[kind |-> k, int |-> c, str |-> ""] : k \in {"ProbeType", "ChannelMap"}, c \in RegisteredCodes}

call_new_channelmap ==
    /\ fres = NoCall
    /\ \E arg \in ProbeTypeArgs :
          LET r == new_channelmap(arg)
          IN  fres' = [op |-> "new_channelmap", arg |-> arg, err |-> r.err, code |-> r.code]
    /\ UNCHANGED <<scriptVars, coreVars, viewVars>>

call_all_electrodes_of ==
    /\ fres = NoCall
    /\ \E arg \in ProbeTypeArgs :
          LET r == all_electrodes_probe_type(arg)
          IN  fres' = [op |-> "all_electrodes_of", arg |-> arg, err |-> r.err, code |-> r.code]
    /\ UNCHANGED <<scriptVars, coreVars, viewVars>>

\* the probe of the blueprint functions: a probe of one of the classes, or
\* none
CurrentProbes == ProbeClasses \cup {"NoneType"}

\* its channel map: none, or a channel map of a registered code
CurrentChmaps ==
    {[is_channelmap |-> FALSE, code |-> NoCode]} \cup
    {[is_channelmap |-> TRUE, code |-> c] : c \in RegisteredCodes}

ProbeRequests ==
    {[kind |-> "type", name |-> c] : c \in ProbeClasses} \cup
    {[kind |-> "str", name |-> n] : n \in ProbeClasses \cup {"npx", "other", "unknown"}}

call_check_probe ==
    /\ fres = NoCall
    /\ \E cp \in CurrentProbes, cc \in CurrentChmaps, probe \in ProbeRequests,
          chmap_code \in RegisteredCodes \cup {NoCode} :
          LET r == check_probe(cp, cc, probe, chmap_code)
          IN  fres' = [op |-> "check_probe", current_probe |-> cp, current_chmap |-> cc,
                       probe |-> probe, chmap_code |-> chmap_code,
                       err |-> r.err, carried |-> [probe |-> r.probe, chmap_code |-> r.chmap_code]]
    /\ UNCHANGED <<scriptVars, coreVars, viewVars>>

\* the channel map a run is given, and what bp.new_channelmap returns: no
\* channel map, a channel map of the requested code or one of another code
ChmapKinds == {"None", "requested", "other"}

\* new_channelmap of the blueprint functions returns the channel map of the
\* probe view after app.on_new, whatever that is, or raises
NewChannelmapReturns == ChmapKinds \cup {"error"}

\* script_use_probe: no request, or a request to create and / or check
UseProbeRequests ==
    {[present |-> FALSE, create |-> FALSE, check |-> FALSE]} \cup
    [present : {TRUE}, create : BOOLEAN, check : BOOLEAN]

\* the scripts: what a call of the script does with the channel map it is
\* given.  "request" is a RequestChannelmapTypeError whose request matches
\* the probe and carries a code, "request_other" one that does not.
ScriptKinds ==
    {"function", "generator", "error", "request_always", "request_if_none",
     "request_unless_requested", "request_other"}

script_call(kind, chmap_kind) ==
    CASE kind = "function" -> "return"
      [] kind = "generator" -> "generator"
      [] kind = "error" -> "error"
      [] kind = "request_always" -> "request"
      [] kind = "request_if_none" -> IF chmap_kind = "None" THEN "request" ELSE "return"
      [] kind = "request_unless_requested" ->
            IF chmap_kind = "requested" THEN "return" ELSE "request"
      [] OTHER -> "request_other"

\* _run_script at recursion depth `depth`; nc[d] is what new_channelmap
\* returns at depth d.  The result counts the calls of the script and the
\* channel maps created, and tells how the invocation ended.
RECURSIVE run_script_rerun(_, _, _, _, _)
run_script_rerun(kind, request, chmap_kind, nc, depth) ==
    LET rerun(calls) ==
            IF nc[depth] = "error" THEN [end |-> "error", calls |-> calls, created |-> 0]
            ELSE LET r == run_script_rerun(kind, request, nc[depth], nc, depth + 1)
                 IN  [r EXCEPT !.calls = @ + calls, !.created = @ + 1]
    IN  IF depth > RecursionLimit
        THEN [end |-> "RecursionError", calls |-> 0, created |-> 0]
        ELSE IF request.present /\ chmap_kind = "None" /\ request.create
        THEN rerun(0)
        ELSE IF request.present /\ request.check /\ chmap_kind # "requested"
        THEN [end |-> "RequestChannelmapTypeError", calls |-> 0, created |-> 0]
        ELSE LET ret == script_call(kind, chmap_kind)
             IN  CASE ret = "return" -> [end |-> "finished", calls |-> 1, created |-> 0]
                   [] ret = "generator" -> [end |-> "generator", calls |-> 1, created |-> 0]
                   [] ret = "error" -> [end |-> "error", calls |-> 1, created |-> 0]
                   [] ret = "request" /\ chmap_kind = "None" -> rerun(1)
                   [] OTHER -> [end |-> "RequestChannelmapTypeError", calls |-> 1, created |-> 0]

call_run_script ==
    /\ fres = NoCall
    /\ \E kind \in ScriptKinds, request \in UseProbeRequests, c \in ChmapKinds,
          nc \in [1 .. RecursionLimit -> NewChannelmapReturns] :
          fres' = [op |-> "_run_script", kind |-> kind, request |-> request,
                   chmap |-> c, nc |-> nc,
                   out |-> run_script_rerun(kind, request, c, nc, 1)]
    /\ UNCHANGED <<scriptVars, coreVars, viewVars>>

\* the requested electrodes of a blueprint: its entries of category SET or
\* of a density category
request_electrodes(bp) ==
    Cardinality({i \in DOMAIN bp : bp[i] \in {CATE_SET, CATE_FULL, CATE_HALF, CATE_QUARTER}})

\* the efficiency as the plain quotient
channel_efficiency_quotient(used, requested) == [num |-> used, den |-> requested]

\* the channel efficiency, a fraction num / den: used / requested, at most 1
channel_efficiency(used, requested) ==
    [num |-> IF used < requested THEN used ELSE requested, den |-> requested]

\* f'{100 * channel_efficiency:.2f}%': the percentage rounded to hundredths,
\* as a number of hundredths of a percent
format_percent(eff) == (2 * 10000 * eff.num + eff.den) \div (2 * eff.den)

\* the blueprints the statistics are taken of
StatBlueprints == [Index -> {CATE_UNSET, CATE_FULL, CATE_LOW}]

\* view_ext_statistics_info(chmap, blueprint).  Without requested electrodes
\* the quotient is not defined: the call fails or reports no efficiency.
call_view_ext_statistics_info ==
    /\ fres = NoCall
    /\ \E cm \in ValidChannelMaps, bp \in StatBlueprints, zero \in {"ZeroDivisionError", "none"} :
          LET used      == ChannelMap_len(cm)
              requested == request_electrodes(bp)
              eff       == channel_efficiency(used, requested)
          IN  fres' = [op |-> "view_ext_statistics_info", cm |-> cm, bp |-> bp,
                       used |-> used, requested |-> requested,
                       err |-> IF requested = 0 THEN zero ELSE "none",
                       out |-> IF requested = 0 THEN 0 ELSE format_percent(eff)]
    /\ UNCHANGED <<scriptVars, coreVars, viewVars>>

NextFun ==
    \/ call_invalid_electrodes
    \/ call_invalid_electrodes_batch
    \/ call_all_electrodes
    \/ call_all_channels
    \/ call_save_load_blueprint
    \/ call_load_blueprint
    \/ call_new_channelmap
    \/ call_all_electrodes_of
    \/ call_check_probe
    \/ call_run_script
    \/ call_view_ext_statistics_info

SpecFun == InitEdit /\ [][NextFun]_vars

(***************************************************************************)
(* ProbeView: the channel map shown (chmap) and the electrodes with their  *)
(* states.  An electrode is the object of the list with its key.           *)
(***************************************************************************)
\* the electrodes selected in a data source, in the order the set is walked
Selections ==
    {q \in UNION {[1 .. n -> Index] : n \in 0 .. MaxSel} :
        \A i, j \in DOMAIN q : i # j => q[i] # q[j]}

\* get_selected(data_electrodes[state]): the electrodes selected in the data
\* source of a state, which shows the electrodes of that state; without
\* electrodes there is nothing to select
get_selected(es, state) ==
    {q \in Selections : \A n \in DOMAIN q : q[n] \in DOMAIN es /\ es[q[n]].state = state}

\* the keys of a list of electrodes
Keys(list) == {list[n].electrode : n \in DOMAIN list}

\* the states set with FORBIDDEN after USED
reset_electrode_state_forbidden_last(cm, es) ==
    LET unused == [n \in DOMAIN es |-> [es[n] EXCEPT !.state = STATE_UNUSED]]
        c      == all_channels(cm, [given |-> TRUE, list |-> unused])
        inv    == invalid_electrodes_batch(cm, c, unused)
    IN  [n \in DOMAIN es |->
            [es[n] EXCEPT !.state =
                IF es[n].electrode \in Keys(inv) THEN STATE_FORBIDDEN
                ELSE IF es[n].electrode \in Keys(c) THEN STATE_USED
                ELSE STATE_UNUSED]]

\* _reset_electrode_state: every electrode UNUSED, then the electrodes on
\* the channels of the electrodes of the channel map FORBIDDEN, then the
\* electrodes of the channel map USED
reset_electrode_state(cm, es) ==
    LET unused == [n \in DOMAIN es |-> [es[n] EXCEPT !.state = STATE_UNUSED]]
        c      == all_channels(cm, [given |-> TRUE, list |-> unused])
        inv    == invalid_electrodes_batch(cm, c, unused)
    IN  [n \in DOMAIN es |->
            [es[n] EXCEPT !.state =
                IF es[n].electrode \in Keys(c) THEN STATE_USED
                ELSE IF es[n].electrode \in Keys(inv) THEN STATE_FORBIDDEN
                ELSE STATE_UNUSED]]

\* for e in selected: add_electrode(channelmap, e, overwrite=...)
RECURSIVE add_selected(_, _, _, _)
add_selected(cm, es, sel, overwrite) ==
    IF sel = <<>> THEN cm
    ELSE add_selected(add_electrode(cm, es[Head(sel)], overwrite).chmap, es, Tail(sel), overwrite)

\* for e in selected: del_electrode(channelmap, e)
RECURSIVE del_selected(_, _, _)
del_selected(cm, es, sel) ==
    IF sel = <<>> THEN cm
    ELSE del_selected(del_electrode(cm, es[Head(sel)]), es, Tail(sel))

\* the argument of reset: None, an integer code or a channel map, with the
\* channel map the probe makes of it
ResetArgs ==
    {[kind |-> k, chmap |-> ChannelMap_new(probe_type)] : k \in {"None", "int"}} \cup
    {[kind |-> "ChannelMap", chmap |-> cm] : cm \in ValidChannelMaps}

\* reset(chmap): a new channel map of the current one's type (None), of a
\* code (int) or a copy of a channel map; the electrodes are made anew
reset ==
    /\ \E arg \in ResetArgs :
          LET fails == arg.kind = "None" /\ electrodes = None
              channelmap == arg.chmap
              fresh == [i \in Index |-> desp(i, STATE_UNUSED, CATE_UNSET)]
          IN  /\ chmap' = IF fails THEN chmap ELSE channelmap
              /\ electrodes' = IF fails THEN electrodes
                               ELSE reset_electrode_state(channelmap, fresh)
              /\ last' = [op |-> "reset", pre |-> chmap, args |-> <<arg>>,
                          err |-> IF fails THEN "TypeError" ELSE "none"]
    /\ UNCHANGED <<selVars, scriptVars, fres, recVars>>

\* set_state_for_selected(state) with the electrodes selected in the data
\* sources of the UNUSED, FORBIDDEN and USED electrodes
set_state_for_selected ==
    /\ \E state \in {STATE_USED, STATE_UNUSED, STATE_FORBIDDEN},
          unused \in get_selected(electrodes, STATE_UNUSED),
          forbidden \in get_selected(electrodes, STATE_FORBIDDEN),
          used \in get_selected(electrodes, STATE_USED) :
          /\ state = STATE_USED => used = <<>>
          /\ state = STATE_UNUSED => unused = <<>> /\ forbidden = <<>>
          /\ state = STATE_FORBIDDEN => unused = <<>> /\ forbidden = <<>> /\ used = <<>>
          /\ LET cm == IF state = STATE_USED
                       THEN add_selected(add_selected(chmap, electrodes, unused, FALSE),
                                         electrodes, forbidden, TRUE)
                       ELSE IF state = STATE_UNUSED
                       THEN del_selected(chmap, electrodes, used)
                       ELSE chmap
             IN  /\ chmap' = IF electrodes = None THEN chmap ELSE cm
                 /\ electrodes' = IF electrodes = None THEN electrodes
                                  ELSE reset_electrode_state(cm, electrodes)
                 /\ last' = [op |-> "set_state_for_selected", pre |-> chmap,
                             args |-> <<state, unused, forbidden, used>>,
                             err |-> IF electrodes = None THEN "TypeError" ELSE "none"]
    /\ UNCHANGED <<selVars, scriptVars, fres, recVars>>

\* refresh_selection: select_electrodes gives the new channel map, or fails
refresh_selection ==
    /\ \/ /\ electrodes # None
          /\ \E cm \in ValidChannelMaps :
                /\ chmap' = cm
                /\ electrodes' = reset_electrode_state(cm, electrodes)
                /\ last' = [op |-> "refresh_selection", pre |-> chmap, args |-> <<>>,
                            err |-> "none"]
       \/ /\ last' = [op |-> "refresh_selection", pre |-> chmap, args |-> <<>>,
                      err |-> "error"]
          /\ UNCHANGED <<chmap, electrodes>>
    /\ UNCHANGED <<selVars, scriptVars, fres, recVars>>

NextProbe == reset \/ set_state_for_selected \/ refresh_selection

SpecProbe == InitEdit /\ [][NextProbe]_vars

(***************************************************************************)
(* RecordManager and NamedHistory.  The registered views are Views, in the *)
(* order of registration; a step is named by the view that recorded it.    *)
(***************************************************************************)
Views == <<"v1", "v2">>

NamedHistory(frozen, steps) == [exists |-> TRUE, frozen |-> frozen, steps |-> steps]

\* append(step): the steps (one step, or the steps of a history) are added
\* unless the history is frozen
NamedHistory_append(h, steps) ==
    IF ~h.frozen THEN [h |-> [h EXCEPT !.steps = @ \o steps], ret |-> TRUE]
    ELSE [h |-> h, ret |-> FALSE]

\* delete(index): the steps at the indices are deleted unless frozen; the
\* remaining steps are kept with their place
NamedHistory_delete(h, index) ==
    IF ~h.frozen
    THEN [h |-> [h EXCEPT !.steps =
                    LET kept == SelectSeq([n \in DOMAIN @ |-> n], LAMBDA n : (n - 1) \notin index)
                    IN  [m \in DOMAIN kept |-> @[kept[m]]]],
          ret |-> TRUE]
    ELSE [h |-> h, ret |-> FALSE]

\* the clear that does not look at frozen
NamedHistory_clear_always(h) == [h |-> [h EXCEPT !.steps = <<>>], ret |-> TRUE]

\* clear(): the steps are removed unless frozen
NamedHistory_clear(h) ==
    IF ~h.frozen THEN [h |-> [h EXCEPT !.steps = <<>>], ret |-> TRUE]
    ELSE [h |-> h, ret |-> FALSE]

\* the property history: the history of the current name, made if missing
RecordManager_history(hist, nm) ==
    IF hist[nm].exists THEN hist ELSE [hist EXCEPT ![nm] = NamedHistory(FALSE, <<>>)]

\* a name argument: None, or a name, which no history need have
NameArgs ==
    {[given |-> FALSE, name |-> ""]} \cup
    {[given |-> TRUE, name |-> n] : n \in HistoryNames \cup {"unknown"}}

\* the steps a history can hold
StepSeqs == UNION {[1 .. n -> {Views[v] : v \in DOMAIN Views}] : n \in 0 .. MaxHist}

\* load_history(file, reset): the file holds one history
load_history ==
    /\ replay_pc = 0
    /\ \E n \in HistoryNames, frozen \in BOOLEAN, steps \in StepSeqs, rst \in BOOLEAN :
          /\ history' = [m \in HistoryNames |->
                            IF m = n THEN NamedHistory(frozen, steps)
                            ELSE IF rst THEN NoHistory ELSE history[m]]
          /\ last' = [op |-> "load_history", n |-> n, ret |-> TRUE, err |-> "none"]
    /\ UNCHANGED <<chmap, selVars, scriptVars, fres, electrodes, name, disable,
                   is_replaying, replay_pc>>

\* the add_record that records during a replay
add_record_while_replaying(hist, nm, replaying, dis, view) ==
    IF ~dis
    THEN LET made == RecordManager_history(hist, nm)
         IN  [made EXCEPT ![nm] = NamedHistory_append(made[nm], <<view>>).h]
    ELSE hist

\* the add_record given to a registered view, and _add_record
add_record_of(hist, nm, replaying, dis, view) ==
    IF ~replaying /\ ~dis
    THEN LET made == RecordManager_history(hist, nm)
         IN  [made EXCEPT ![nm] = NamedHistory_append(made[nm], <<view>>).h]
    ELSE hist

\* a view records a step, also from inside its replay_records
add_record ==
    /\ \E v \in DOMAIN Views :
          /\ replay_pc # 0 => v = replay_pc
          /\ (history[name].exists /\ ~history[name].frozen) =>
                Len(history[name].steps) < MaxHist
          /\ history' = add_record_of(history, name, is_replaying, disable, Views[v])
          /\ last' = [op |-> "add_record", n |-> name, ret |-> history' # history,
                      err |-> "none"]
    /\ UNCHANGED <<chmap, selVars, scriptVars, fres, electrodes, name, disable,
                   is_replaying, replay_pc>>

\* append, delete and clear of the history of name n
history_append ==
    /\ replay_pc = 0
    /\ \E n \in HistoryNames, v \in DOMAIN Views :
          /\ history[n].exists
          /\ ~history[n].frozen => Len(history[n].steps) < MaxHist
          /\ LET r == NamedHistory_append(history[n], <<Views[v]>>)
             IN  /\ history' = [history EXCEPT ![n] = r.h]
                 /\ last' = [op |-> "append", n |-> n, ret |-> r.ret, err |-> "none"]
    /\ UNCHANGED <<chmap, selVars, scriptVars, fres, electrodes, name, disable,
                   is_replaying, replay_pc>>

history_delete ==
    /\ replay_pc = 0
    /\ \E n \in HistoryNames :
          /\ history[n].exists
          /\ \E index \in SUBSET (0 .. (Len(history[n].steps) - 1)) :
                LET r == NamedHistory_delete(history[n], index)
                IN  /\ history' = [history EXCEPT ![n] = r.h]
                    /\ last' = [op |-> "delete", n |-> n, ret |-> r.ret, err |-> "none"]
    /\ UNCHANGED <<chmap, selVars, scriptVars, fres, electrodes, name, disable,
                   is_replaying, replay_pc>>

history_clear ==
    /\ replay_pc = 0
    /\ \E n \in HistoryNames :
          /\ history[n].exists
          /\ LET r == NamedHistory_clear(history[n])
             IN  /\ history' = [history EXCEPT ![n] = r.h]
                 /\ last' = [op |-> "clear", n |-> n, ret |-> r.ret, err |-> "none"]
    /\ UNCHANGED <<chmap, selVars, scriptVars, fres, electrodes, name, disable,
                   is_replaying, replay_pc>>

\* clear_history(name): the history of the name, the current one for None,
\* is cleared and, when that succeeds, removed
clear_history ==
    /\ replay_pc = 0
    /\ \E arg \in NameArgs :
          LET n    == IF arg.given THEN arg.name ELSE name
              hit  == n \in HistoryNames /\ history[n].exists
              r    == NamedHistory_clear(history[n])
          IN  /\ history' = IF hit
                            THEN [history EXCEPT ![n] = IF r.ret THEN NoHistory ELSE r.h]
                            ELSE history
              /\ last' = [op |-> "clear_history", n |-> n, ret |-> hit /\ r.ret,
                          err |-> "none"]
    /\ UNCHANGED <<chmap, selVars, scriptVars, fres, electrodes, name, disable,
                   is_replaying, replay_pc>>

\* _on_save_name_change(old, name): the manager takes the name; a history
\* that did not exist is made and takes the steps of the old one
on_save_name_change ==
    /\ replay_pc = 0
    /\ \E n \in HistoryNames :
          LET copy == ~history[n].exists
              made == RecordManager_history(history, n)
          IN  /\ name' = n
              /\ history' = IF copy /\ history[name].exists
                            THEN [made EXCEPT ![n] =
                                     NamedHistory_append(made[n], history[name].steps).h]
                            ELSE made
              /\ last' = [op |-> "on_save_name_change", n |-> n, ret |-> copy,
                          err |-> "none"]
    /\ UNCHANGED <<chmap, selVars, scriptVars, fres, electrodes, disable,
                   is_replaying, replay_pc>>

on_disable ==
    /\ replay_pc = 0
    /\ disable' = ~disable
    /\ last' = [op |-> "on_disable", n |-> name, ret |-> disable', err |-> "none"]
    /\ UNCHANGED <<chmap, selVars, scriptVars, fres, electrodes, history, name,
                   is_replaying, replay_pc>>

\* the index argument of replay: None or a list of indices
IndexArgs ==
    {[given |-> FALSE, index |-> <<>>]} \cup
    {[given |-> TRUE, index |-> q] : q \in {<<0>>, <<MaxHist>>}}

\* the guard left as it is when a view has raised
replay_finally_on_return_only(raised) == raised

\* try ... finally: _is_replaying after the loop over the views
replay_finally(raised) == FALSE

\* replay(name, index) up to the first replay_records: it fails when a
\* replay is under way (RuntimeError), when no history has the name
\* (KeyError) or an index is not in the history (IndexError); otherwise the
\* guard is set and the views are walked.  Called from a view that is being
\* replayed when replay_pc is not 0.
replay ==
    /\ \E arg \in NameArgs, ix \in IndexArgs :
          LET made == IF arg.given THEN history ELSE RecordManager_history(history, name)
              n    == IF arg.given THEN arg.name ELSE name
              e    == IF is_replaying THEN "RuntimeError"
                      ELSE IF n \notin HistoryNames \/ ~made[n].exists THEN "KeyError"
                      ELSE IF ix.given /\ \E m \in DOMAIN ix.index :
                                             ix.index[m] >= Len(made[n].steps)
                      THEN "IndexError"
                      ELSE "none"
          IN  /\ history' = IF is_replaying THEN history ELSE made
              /\ is_replaying' = IF e = "none" THEN TRUE ELSE is_replaying
              /\ replay_pc' = IF e = "none" THEN 1 ELSE replay_pc
              /\ last' = [op |-> "replay", n |-> n, ret |-> e = "none", err |-> e]
    /\ UNCHANGED <<chmap, selVars, scriptVars, fres, electrodes, name, disable>>

\* the replay_records of the view at replay_pc returns: the next view, or
\* the end of the loop and the finally
replay_records_return ==
    /\ replay_pc # 0
    /\ replay_pc' = IF replay_pc < Len(Views) THEN replay_pc + 1 ELSE 0
    /\ is_replaying' = IF replay_pc < Len(Views) THEN is_replaying ELSE replay_finally(FALSE)
    /\ last' = [op |-> "replay_records", n |-> name, ret |-> TRUE, err |-> "none"]
    /\ UNCHANGED <<chmap, selVars, scriptVars, fres, electrodes, history, name, disable>>

\* the replay_records of the view at replay_pc raises: the finally, and the
\* exception leaves replay
replay_records_raise ==
    /\ replay_pc # 0
    /\ replay_pc' = 0
    /\ is_replaying' = replay_finally(TRUE)
    /\ last' = [op |-> "replay_records", n |-> name, ret |-> FALSE, err |-> "error"]
    /\ UNCHANGED <<chmap, selVars, scriptVars, fres, electrodes, history, name, disable>>

NextRecord ==
    \/ load_history
    \/ add_record
    \/ history_append
    \/ history_delete
    \/ history_clear
    \/ clear_history
    \/ on_save_name_change
    \/ on_disable
    \/ replay
    \/ replay_records_return
    \/ replay_records_raise

SpecRecord == InitEdit /\ [][NextRecord]_vars

(***************************************************************************)
(* Properties.                                                             *)
(***************************************************************************)
IndexOf(k) == CHOOSE i \in Index : Universe[i].electrode = k

Occupied(cm) == {c \in DOMAIN cm : cm[c] # None}

\* the hardware channel of the electrode in slot c, as its descriptor has it
ChannelOfSlot(cm, c) == Universe[IndexOf(cm[c])].channel

\* add_electrode of e met a channel held by another electrode
MetConflict(op) ==
    /\ op.pre[Universe[op.e].channel] # None
    /\ op.pre[Universe[op.e].channel] # Universe[op.e].electrode

InRun == pc \in {"loop", "done", "error"}

\* C1: after any sequence of add_electrode (overwrite or not), del_electrode
\* and clear_electrode, every occupied slot holds an electrode whose hardware
\* channel is the slot's index, and no hardware channel is held twice.
C1_SlotHoldsOwnChannel ==
    pc = "edit" =>
        /\ \A c \in Occupied(chmap) : ChannelOfSlot(chmap, c) = c
        /\ \A c1, c2 \in Occupied(chmap) :
              ChannelOfSlot(chmap, c1) = ChannelOfSlot(chmap, c2) => c1 = c2

C1_Witness ==
    /\ pc = "edit"
    /\ last.op = "add_electrode" /\ last.overwrite /\ MetConflict(last)
    /\ Occupied(chmap) = Channels

\* C2: in the channel map of a selection run, at every step boundary and at
\* its end, no two occupied slots hold electrodes of the same hardware channel.
C2_Uniqueness ==
    InRun =>
        \A c1, c2 \in Occupied(chmap) :
            c1 # c2 => /\ chmap[c1] # chmap[c2]
                       /\ ChannelOfSlot(chmap, c1) # ChannelOfSlot(chmap, c2)

C2_Witness ==
    /\ pc = "done" /\ last.op = "exit"
    /\ Occupied(chmap) = Channels
    /\ count >= 2

C4_ConflictSurfaced ==
    (pc = "edit" /\ last.op = "add_electrode" /\ ~last.overwrite /\ MetConflict(last)) =>
        /\ last.err = "ChannelHasUsedError"
        /\ chmap = last.pre

\* C5: add_electrode with overwrite on a channel held by another electrode
\* evicts the occupant and leaves e in its place; the number of occupied
\* channels and every other slot are unchanged.
C5_OverwriteEvicts ==
    (pc = "edit" /\ last.op = "add_electrode" /\ last.overwrite /\ MetConflict(last)) =>
        LET e == Universe[last.e]
        IN  /\ last.err = "none"
            /\ chmap[e.channel] = e.electrode
            /\ ChannelMap_len(chmap) = ChannelMap_len(last.pre)
            /\ \A c \in Channels : c # e.channel => chmap[c] = last.pre[c]

C5_Witness ==
    /\ pc = "edit"
    /\ last.op = "add_electrode" /\ last.overwrite /\ MetConflict(last)
    /\ ChannelMap_len(last.pre) < probe_type.n_channels

\* C6: a channel conflict met while a picked electrode is added is handled
\* inside the run as overwrite or skip: the run goes on, no channel-conflict
\* error ever reaches the caller, and a run that made a pick ends without error.
C6_ConflictHandledInside ==
    InRun =>
        /\ err # "ChannelHasUsedError"
        /\ (last.op = "pick" /\ MetConflict(last)) =>
              (last.err = "none" /\ pc = "loop" /\ last.outcome \in {"overwrite", "skip"})
        /\ (last.op = "pick" /\ last.outcome = "skip") => chmap = last.pre
        /\ count > 0 => err = "none"

C6_Witness ==
    /\ pc = "loop" /\ last.op = "pick" /\ MetConflict(last) /\ last.outcome = "skip"

\* C7 (as claimed): the loop picks only while a channel is free, it is left
\* only when every channel is occupied or no candidate remains, and a run
\* left for lack of candidates ends normally with its partial channel map.
C7_TerminatesNormally ==
    /\ (last.op = "pick") => ChannelMap_len(last.pre) < probe_type.n_channels
    /\ (last.op = "exit") =>
          \/ ChannelMap_len(chmap) = probe_type.n_channels
          \/ pick_electrode(blueprint, cand) = 0
    /\ (last.op = "exit" /\ ChannelMap_len(chmap) < probe_type.n_channels) =>
          (pc = "done" /\ err = "none")

\* C8: an accepted pick leaves the occupied-channel count unchanged (evict
\* and overwrite) or raises it by one, a skipped pick leaves it unchanged,
\* and the count never exceeds the channel count of the probe type.
C8_MonotonicCount ==
    InRun =>
        /\ ChannelMap_len(chmap) <= probe_type.n_channels
        /\ selected_electrode(cand) = ChannelMap_len(chmap)
        /\ (last.op = "pick") =>
              /\ last.outcome = "add" => ChannelMap_len(chmap) = ChannelMap_len(last.pre) + 1
              /\ last.outcome \in {"overwrite", "skip"} =>
                    ChannelMap_len(chmap) = ChannelMap_len(last.pre)

C8_Witness ==
    /\ last.op = "pick" /\ last.outcome = "overwrite"
    /\ ChannelMap_len(chmap) = ChannelMap_len(last.pre)
    /\ chmap # last.pre

\* C10: with every electrode SET, more electrodes than channels and an empty
\* channel map at the start, a run that is not interrupted fills exactly
\* n_channels channels and is_valid holds of the result.
C10_AllSetFills ==
    (/\ last.op = "exit"
     /\ \A i \in Index : blueprint[i] = CATE_SET
     /\ NElectrodes > probe_type.n_channels
     /\ ChannelMap_len(chmap0) = 0) =>
        /\ pc = "done"
        /\ ChannelMap_len(chmap) = probe_type.n_channels
        /\ count = probe_type.n_channels
        /\ is_valid(chmap)

C10_Witness ==
    /\ last.op = "exit" /\ pc = "done"
    /\ \A i \in Index : blueprint[i] = CATE_SET
    /\ NElectrodes > probe_type.n_channels
    /\ ChannelMap_len(chmap0) = 0
    /\ is_valid(chmap)

\* C11 (as claimed): with every electrode UNSET and an empty channel map at
\* the start, the run ends at once without a pick and without failing; its
\* channel map is empty and is_valid is false of it.
C11_EmptyBlueprintEndsNormally ==
    (/\ last.op = "exit"
     /\ \A i \in Index : blueprint[i] = CATE_UNSET
     /\ ChannelMap_len(chmap0) = 0) =>
        /\ pc = "done" /\ err = "none"
        /\ count = 0
        /\ ChannelMap_len(chmap) = 0
        /\ ~is_valid(chmap)

\* the electrodes the channel map holds, as a list of descriptors
selected_list(cm) ==
    SelectSeq(Universe, LAMBDA it : cm[it.channel] = it.electrode)

Range(f) == {f[n] : n \in DOMAIN f}

\* the electrodes of category SET on channel c
SetOnChannel(c) ==
    {i \in Index : Universe[i].channel = c /\ blueprint[i] = CATE_SET}

\* C12: when electrodes of category SET share a hardware channel, the result
\* of a run started on an empty channel map and not interrupted holds exactly
\* one of them, and every other one is among invalid_electrodes of the
\* selected electrodes against the candidates.
C12_SharedChannelOneSelected ==
    (/\ last.op = "exit"
     /\ ChannelMap_len(chmap0) = 0) =>
        \A c \in Channels :
            Cardinality(SetOnChannel(c)) >= 2 =>
                /\ pc = "done"
                /\ Cardinality({i \in SetOnChannel(c) : chmap[c] = Universe[i].electrode}) = 1
                /\ \A i \in SetOnChannel(c) :
                      chmap[c] # Universe[i].electrode =>
                          Universe[i] \in Range(invalid_electrodes_batch(chmap, selected_list(chmap), Universe))

C12_Witness ==
    /\ last.op = "exit" /\ pc = "done"
    /\ ChannelMap_len(chmap0) = 0
    /\ \E c \in Channels :
          /\ Cardinality(SetOnChannel(c)) = 2
          /\ \E i \in SetOnChannel(c) : chmap[c] = Universe[i].electrode
          /\ \E i \in SetOnChannel(c) :
                /\ chmap[c] # Universe[i].electrode
                /\ Universe[i] \in Range(invalid_electrodes_batch(chmap, selected_list(chmap), Universe))

\* the runs that are suspended between two steps
Suspended == {s \in Scripts : run[s].scheduled}

C14_OneActiveRun ==
    Cardinality(Suspended) <= 1

\* C15: a run whose stop was requested while it was suspended is not
\* advanced again: it either still waits for its callback, or the callback
\* has thrown the interrupt in and scheduled nothing.
C15_CancelAtBoundary ==
    \A s \in Scripts :
        run[s].cancel_at # -1 =>
            /\ run[s].steps = run[s].cancel_at
            /\ run[s].scheduled # run[s].thrown
            /\ run[s].scheduled => running_script[s] = "interrupt"

C15_Witness ==
    \E s \in Scripts :
        /\ run[s].cancel_at >= 1
        /\ run[s].thrown /\ ~run[s].scheduled
        /\ run[s].steps = run[s].cancel_at

\* C16: is_valid holds of the channel map exactly when every hardware
\* channel of the probe type is occupied.
C16_ValidIffFull ==
    is_valid(chmap) <=> (\A c \in Channels : chmap[c] # None)

C16_Witness ==
    /\ last.op = "del_electrode"
    /\ \A c \in Channels : last.pre[c] # None
    /\ ~is_valid(chmap)

\* C17: invalid_electrodes of a single electrode e returns exactly the
\* candidates for which probe_rule with e is false, in their order: those on
\* e's channel, e itself when it is a candidate, and only candidates.
C17_InvalidSingle ==
    fres.op = "invalid_electrodes" =>
        LET e == Universe[fres.e]
        IN  /\ fres.out = SelectSeq(fres.cands, LAMBDA c : ~probe_rule(chmap, e, c))
            /\ Range(fres.out) \subseteq Range(fres.cands)
            /\ \A c \in Range(fres.cands) : c \in Range(fres.out) <=> c.channel = e.channel
            /\ e \in Range(fres.cands) => e \in Range(fres.out)

C17_Witness ==
    /\ fres.op = "invalid_electrodes"
    /\ Len(fres.cands) = MaxCand
    /\ Universe[fres.e] \in Range(fres.out)
    /\ Len(fres.out) = 2
    /\ fres.out[1] # fres.out[2]

\* C18: invalid_electrodes of a batch S is the union over e in S of
\* invalid_electrodes of e, in the order of the candidate list, each candidate
\* as often as the list has it; it is empty for an empty S.
C18_InvalidBatch ==
    fres.op = "invalid_electrodes_batch" =>
        /\ fres.out = SelectSeq(fres.cands, LAMBDA c :
                          \E n \in DOMAIN fres.S :
                              c \in Range(invalid_electrodes(chmap, fres.S[n], fres.cands)))
        /\ Len(fres.out) <= Len(fres.cands)
        /\ fres.S = <<>> => fres.out = <<>>

C18_Witness ==
    /\ fres.op = "invalid_electrodes_batch"
    /\ Len(fres.S) = 2 /\ fres.S[1].channel # fres.S[2].channel
    /\ Len(fres.out) = 2
    /\ fres.out[1].channel = fres.S[2].channel
    /\ fres.out[2].channel = fres.S[1].channel

\* C19: del_electrode of e empties the slot of e's channel, is a no-op
\* without error when the slot is empty, leaves every other slot as it was,
\* and afterwards add_electrode without overwrite of any electrode of that
\* channel puts it into the slot.
C19_DelFrees ==
    (pc = "edit" /\ last.op = "del_electrode") =>
        LET e == Universe[last.e]
        IN  /\ last.err = "none"
            /\ chmap[e.channel] = None
            /\ \A c \in Channels : c # e.channel => chmap[c] = last.pre[c]
            /\ last.pre[e.channel] = None => chmap = last.pre
            /\ \A j \in Index :
                  Universe[j].channel = e.channel =>
                      /\ add_electrode(chmap, Universe[j], FALSE).err = "none"
                      /\ add_electrode(chmap, Universe[j], FALSE).chmap =
                            [chmap EXCEPT ![e.channel] = Universe[j].electrode]

C19_Witness ==
    /\ pc = "edit" /\ last.op = "del_electrode"
    /\ last.pre[Universe[last.e].channel] # None
    /\ chmap[Universe[last.e].channel] = None
    /\ \E c \in Channels : c # Universe[last.e].channel /\ chmap[c] # None

\* (shank, row, column) of key ka before that of kb
KeyBefore(ka, kb) ==
    \/ ka[1] < kb[1]
    \/ ka[1] = kb[1] /\ ka[3] < kb[3]
    \/ ka[1] = kb[1] /\ ka[3] = kb[3] /\ ka[2] < kb[2]

\* C20: all_electrodes of a probe type returns n_shank * n_row_shank *
\* n_col_shank electrodes of the probe type, with pairwise distinct keys, in
\* the order shank, then row, then column, each with the channel of its key;
\* another call returns the same sequence.
C20_AllElectrodes ==
    fres.op = "all_electrodes" =>
        LET pt == fres.pt
            out == fres.out
        IN  /\ Len(out) = pt.n_shank * pt.n_row_shank * pt.n_col_shank
            /\ \A a, b \in DOMAIN out :
                  a < b => KeyBefore(out[a].electrode, out[b].electrode)
            /\ \A a, b \in DOMAIN out :
                  a # b => out[a].electrode # out[b].electrode
            /\ \A a \in DOMAIN out :
                  /\ out[a].electrode[1] \in 0 .. (pt.n_shank - 1)
                  /\ out[a].electrode[2] \in 0 .. (pt.n_col_shank - 1)
                  /\ out[a].electrode[3] \in 0 .. (pt.n_row_shank - 1)
                  /\ out[a].s = out[a].electrode[1]
                  /\ out[a].channel = e2cb(pt, out[a].electrode)[1]
            /\ out = all_electrodes(pt)

C20_Witness ==
    /\ fres.op = "all_electrodes"
    /\ fres.pt.n_shank = MaxShank
    /\ fres.pt.n_col_shank = NColShank
    /\ fres.pt.n_row_shank = NRowShank
    /\ Len(fres.out) = MaxShank * NRowShank * NColShank

\* a step of the loop that picked an electrode
PickStep == pc = "loop" /\ last'.op = "pick" /\ count' = count + 1

\* the candidates of the pool cd
Pool(cd) == {i \in Index : eligible(blueprint, cd, i)}

\* the (policy weight, prob) tuple of i is below that of j
TupleBelow(cd, i, j) ==
    LET wi == policy_mapping_priority(blueprint[i])
        wj == policy_mapping_priority(blueprint[j])
    IN  wi < wj \/ (wi = wj /\ cd[i].prob < cd[j].prob)

C29_EvictLowerOrEqual ==
    [][PickStep =>
          LET e   == last'.e
              c   == Universe[e].channel
              occ == chmap[c]
          IN  /\ \A d \in Channels : d # c => chmap'[d] = chmap[d]
              /\ (occ # None /\ occ # Universe[e].electrode) =>
                    LET o == IndexOf(occ)
                        wo == policy_mapping_priority(blueprint[o])
                        we == policy_mapping_priority(blueprint[e])
                    IN  /\ wo <= we => (chmap'[c] = Universe[e].electrode /\ last'.outcome = "overwrite")
                        /\ wo > we => /\ chmap'[c] = occ
                                      /\ last'.outcome = "skip"
                                      /\ e \notin Pool(cand')]_vars

C29_Witness ==
    /\ last.op = "pick" /\ last.outcome = "skip" /\ MetConflict(last)
    /\ chmap = last.pre
    /\ policy_mapping_priority(blueprint[IndexOf(chmap[Universe[last.e].channel])])
          > policy_mapping_priority(blueprint[last.e])
    /\ cand[last.e].state # STATE_UNUSED

\* C30: the electrode picked in a step of the loop is a candidate before the
\* step and none after it, and no step brings an electrode back into the
\* pool: the pool shrinks with every pick and no electrode is picked twice.
C30_PickedOnce ==
    [][/\ InRun => Pool(cand') \subseteq Pool(cand)
       /\ PickStep =>
             /\ last'.e \in Pool(cand)
             /\ last'.e \notin Pool(cand')
             /\ Cardinality(Pool(cand')) < Cardinality(Pool(cand))]_vars

C30_Witness ==
    /\ last.op = "pick" /\ count >= 2
    /\ last.e \notin Pool(cand)
    /\ \E j \in Index :
          /\ j # last.e
          /\ blueprint[j] \notin {CATE_UNSET, CATE_FORBIDDEN}
          /\ cand[j].state = STATE_FORBIDDEN
          /\ cand[j].prob = policy_mapping_priority(blueprint[j])

\* C21: all_channels returns one descriptor per occupied slot, in ascending
\* channel order, each with the electrode its slot holds; with a list of
\* electrodes the descriptors are electrodes of the list, and an occupied
\* electrode the list does not have is left out.
C21_AllChannels ==
    fres.op = "all_channels" =>
        LET cm  == fres.cm
            el  == fres.electrodes
            out == fres.out
        IN  /\ \A a, b \in DOMAIN out : a < b => out[a].channel < out[b].channel
            /\ \A n \in DOMAIN out :
                  /\ out[n].channel \in Occupied(cm)
                  /\ cm[out[n].channel] = out[n].electrode
            /\ ~el.given => {out[n].channel : n \in DOMAIN out} = Occupied(cm)
            /\ el.given =>
                  /\ \A n \in DOMAIN out : out[n] \in Range(el.list)
                  /\ {out[n].channel : n \in DOMAIN out} =
                        {c \in Occupied(cm) : \E m \in DOMAIN el.list : el.list[m].electrode = cm[c]}

C21_Witness ==
    /\ fres.op = "all_channels"
    /\ fres.electrodes.given
    /\ Occupied(fres.cm) = Channels
    /\ Len(fres.out) = 1
    /\ Len(fres.electrodes.list) = MaxCand

\* C22: load_blueprint of save_blueprint of a blueprint b, into electrodes
\* with the keys of b, gives every key the state and the category it has in
\* b, without error, and leaves the list of electrodes otherwise as it was.
C22_RoundTrip ==
    fres.op = "save_load_blueprint" =>
        /\ fres.err = "none"
        /\ Len(fres.out) = Len(fres.target)
        /\ \A n \in DOMAIN fres.out :
              /\ fres.out[n].electrode = fres.target[n].electrode
              /\ fres.out[n].channel = fres.target[n].channel
              /\ \A m \in DOMAIN fres.b :
                    fres.b[m].electrode = fres.out[n].electrode =>
                        /\ fres.out[n].state = fres.b[m].state
                        /\ fres.out[n].category = fres.b[m].category

C22_Witness ==
    /\ fres.op = "save_load_blueprint"
    /\ fres.b[1].electrode # fres.target[1].electrode
    /\ fres.target[1].state = STATE_USED
    /\ fres.b[1].category = CATE_FULL
    /\ fres.b[Len(fres.b)].state = STATE_FORBIDDEN
    /\ fres.out # fres.target

\* the rows of the array that carry key k
RowsOf(a, k) == {n \in DOMAIN a : <<a[n][1], a[n][2], a[n][3]>> = k}

\* C23: load_blueprint of an array of five columns passes a row whose key no
\* electrode has, without error; every electrode takes the state and the
\* category of the last row with its key, and an electrode without row keeps
\* its own.
C23_UnmatchedDropped ==
    (fres.op = "load_blueprint" /\ fres.ncol = 5) =>
        /\ fres.err = "none"
        /\ Len(fres.out) = Len(fres.target)
        /\ \A n \in DOMAIN fres.out :
              LET k  == fres.target[n].electrode
                  rs == RowsOf(fres.a, k)
              IN  /\ fres.out[n].electrode = k
                  /\ rs = {} => fres.out[n] = fres.target[n]
                  /\ rs # {} =>
                        LET r == CHOOSE x \in rs : \A y \in rs : y <= x
                        IN  /\ fres.out[n].state = fres.a[r][4]
                            /\ fres.out[n].category = fres.a[r][5]

C23_Witness ==
    /\ fres.op = "load_blueprint" /\ fres.ncol = 5
    /\ Len(fres.a) = MaxRows
    /\ RowsOf(fres.a, ForeignKey) = {1}
    /\ fres.a[1][4] = STATE_FORBIDDEN
    /\ fres.err = "none"
    /\ fres.out # fres.target

\* C24 (as claimed): load_blueprint of an array whose rows do not have five
\* columns fails, and no electrode changes.
C24_MalformedFails ==
    (fres.op = "load_blueprint" /\ fres.ncol # 5) =>
        /\ fres.err # "none"
        /\ fres.out = fres.target

\* the code of the argument is not a registered one
UnknownCode(arg) ==
    \/ arg.kind = "int" /\ arg.int \notin RegisteredCodes
    \/ arg.kind = "str" /\ arg.str \notin DOMAIN supported_type

RequestedClass(probe) ==
    IF probe.name \in ProbeClasses THEN probe.name
    ELSE IF probe.name = "npx" THEN "NpxProbeDesp"
    ELSE IF probe.name = "other" THEN "OtherProbeDesp"
    ELSE "none"

\* C26: check_probe returns normally exactly when the current probe is of
\* the requested class and, with a requested code, the current channel map is
\* a channel map of that code; otherwise it raises
\* RequestChannelmapTypeError with the requested probe and code.
C26_CheckProbe ==
    fres.op = "check_probe" =>
        LET match == /\ fres.current_probe = RequestedClass(fres.probe)
                     /\ fres.chmap_code # NoCode =>
                           /\ fres.current_chmap.is_channelmap
                           /\ fres.current_chmap.code = fres.chmap_code
        IN  /\ fres.err = "none" <=> match
            /\ ~match =>
                  /\ fres.err = "RequestChannelmapTypeError"
                  /\ RequestedClass(fres.carried.probe) = RequestedClass(fres.probe)
                  /\ fres.carried.chmap_code = fres.chmap_code

C26_Witness ==
    /\ fres.op = "check_probe"
    /\ fres.current_probe = "NpxProbeDesp"
    /\ fres.probe = [kind |-> "str", name |-> "npx"]
    /\ fres.chmap_code = 24
    /\ ~fres.current_chmap.is_channelmap
    /\ fres.err = "RequestChannelmapTypeError"

\* C36: load_blueprint, whether it returns or fails, leaves the list of
\* electrodes with the electrodes it had, in their order, each with its key,
\* shank and channel; an electrode whose key no row of the array carries
\* keeps its state and its category.
C36_LoadFrame ==
    fres.op = "load_blueprint" =>
        /\ DOMAIN fres.out = DOMAIN fres.target
        /\ \A n \in DOMAIN fres.out :
              /\ fres.out[n].electrode = fres.target[n].electrode
              /\ fres.out[n].channel = fres.target[n].channel
              /\ fres.out[n].s = fres.target[n].s
              /\ RowsOf(fres.a, fres.target[n].electrode) = {} =>
                    /\ fres.out[n].state = fres.target[n].state
                    /\ fres.out[n].category = fres.target[n].category

C36_Witness ==
    /\ fres.op = "load_blueprint" /\ fres.err = "none"
    /\ Len(fres.a) = 1
    /\ fres.target[1].state = STATE_USED
    /\ RowsOf(fres.a, fres.target[1].electrode) = {}
    /\ fres.out[1] = fres.target[1]
    /\ \E n \in DOMAIN fres.out : fres.out[n].category = CATE_LOW

C34_EndedNotRegistered ==
    \A s \in Scripts :
        (run[s].status \in {"finished", "interrupted", "failed"} /\ ~run[s].scheduled) =>
            ~in_running_script(running_script, s)

\* C35 (as claimed): the blueprint of a run is applied to the editor's
\* blueprint exactly once when the run has completed without interrupt, and
\* not at all while it is under way, when the interrupt was thrown into it,
\* or when it failed.
C35_AppliedOnceOnCompletion ==
    \A s \in Scripts :
        /\ (run[s].status = "finished" /\ ~run[s].thrown) => run[s].applied = 1
        /\ (run[s].thrown \/ run[s].status # "finished") => run[s].applied = 0

\* C40 (as claimed): one invocation of _run_script creates at most one
\* channel map and calls the script at most once more after it, whatever the
\* script does and whatever new_channelmap returns; it does not recurse up
\* to the recursion limit.
C40_RerunAtMostOnce ==
    fres.op = "_run_script" =>
        /\ fres.out.created <= 1
        /\ fres.out.calls <= 2
        /\ fres.out.end # "RecursionError"

\* the electrode with key k occupies a channel of the channel map
Occupies(cm, k) == \E c \in DOMAIN cm : cm[c] = k

\* C33: after reset, set_state_for_selected and refresh_selection have
\* returned, an electrode is USED exactly when it occupies a channel,
\* FORBIDDEN exactly when it does not and an electrode on its channel does,
\* and UNUSED otherwise.
C33_StatesAgree ==
    (last.op \in {"reset", "set_state_for_selected", "refresh_selection"} /\ last.err = "none") =>
        /\ DOMAIN electrodes = Index
        /\ \A n \in Index :
              LET e      == electrodes[n]
                  shares == \E m \in Index :
                               /\ electrodes[m].channel = e.channel
                               /\ Occupies(chmap, electrodes[m].electrode)
              IN  /\ e.electrode = Universe[n].electrode
                  /\ e.state = STATE_USED <=> Occupies(chmap, e.electrode)
                  /\ e.state = STATE_FORBIDDEN <=> (~Occupies(chmap, e.electrode) /\ shares)
                  /\ e.state = STATE_UNUSED <=> ~shares

C33_Witness ==
    /\ last.op = "set_state_for_selected" /\ last.err = "none"
    /\ last.args[1] = STATE_USED
    /\ Len(last.args[2]) = MaxSel /\ Len(last.args[3]) = 1
    /\ last.pre # chmap
    /\ \E n \in DOMAIN electrodes :
          /\ electrodes[n].state = STATE_USED
          /\ last.pre[electrodes[n].channel] \notin {None, electrodes[n].electrode}
    /\ \E n \in DOMAIN electrodes : electrodes[n].state = STATE_FORBIDDEN

\* C32: no step other than load_history changes a frozen history; append,
\* delete, clear and clear_history on it return false, and clear_history
\* leaves it in the manager.  clear_history of a history that is not frozen
\* returns true and removes it.
C32_FrozenUnchanged ==
    [][\A n \in HistoryNames :
          /\ (history[n].exists /\ history[n].frozen /\ last'.op # "load_history") =>
                /\ history'[n] = history[n]
                /\ (last'.op \in {"append", "delete", "clear", "clear_history"} /\ last'.n = n) =>
                      last'.ret = FALSE
          /\ (history[n].exists /\ ~history[n].frozen
                /\ last'.op = "clear_history" /\ last'.n = n) =>
                /\ last'.ret = TRUE
                /\ history'[n] = NoHistory]_vars

C32_Witness ==
    /\ last.op = "clear_history" /\ last.ret = FALSE
    /\ last.n \in HistoryNames
    /\ history[last.n].exists /\ history[last.n].frozen
    /\ Len(history[last.n].steps) = MaxHist

\* C37: an add_record of a view while a replay is under way or recording is
\* disabled leaves every history as it is, and neither the start of a
\* replay nor any step during it changes a history there is.
C37_NoRecordInReplay ==
    [][/\ (last'.op = "add_record" /\ (replay_pc # 0 \/ disable)) => history' = history
       /\ (last'.op = "replay" \/ replay_pc # 0) =>
             \A n \in HistoryNames : history[n].exists => history'[n] = history[n]]_vars

C37_Witness ==
    /\ last.op = "add_record" /\ last.ret = FALSE
    /\ replay_pc # 0 /\ ~disable
    /\ history[name].exists /\ ~history[name].frozen
    /\ Len(history[name].steps) = 1

\* C38: the guard is set exactly while a replay is under way.  A replay
\* asked for during a replay raises RuntimeError and changes nothing; a
\* replay asked for when none is under way fails only for a name without
\* history or an index outside it, without setting the guard, and otherwise
\* starts.
C38_ReplayGuard ==
    [][/\ is_replaying' <=> replay_pc' # 0
       /\ (last'.op = "replay" /\ replay_pc # 0) =>
             /\ last'.err = "RuntimeError"
             /\ UNCHANGED <<history, is_replaying, replay_pc>>
       /\ (last'.op = "replay" /\ replay_pc = 0) =>
             /\ last'.err \in {"none", "KeyError", "IndexError"}
             /\ last'.err = "KeyError" <=>
                   (last'.n \notin HistoryNames \/ ~history'[last'.n].exists)
             /\ last'.err = "none" <=> replay_pc' = 1]_vars

C38_Witness ==
    /\ last.op = "replay_records" /\ last.err = "error"
    /\ replay_pc = 0 /\ ~is_replaying
    /\ history[name].exists /\ Len(history[name].steps) = MaxHist

\* C31: with requested electrodes, the channel efficiency reported, in
\* hundredths of a percent, is the hundredth nearest to used / requested
\* when the channels used are not more than the electrodes requested, and
\* 100.00% when they are more; it is never above 100.00%.
C31_EfficiencySaturates ==
    (fres.op = "view_ext_statistics_info" /\ fres.requested > 0) =>
        /\ fres.err = "none"
        /\ fres.out <= 10000
        /\ fres.used >= fres.requested => fres.out = 10000
        /\ fres.used <= fres.requested =>
              /\ 2 * fres.requested * fres.out <= 2 * 10000 * fres.used + fres.requested
              /\ 2 * fres.requested * fres.out > 2 * 10000 * fres.used - fres.requested

C31_Witness ==
    /\ fres.op = "view_ext_statistics_info"
    /\ fres.requested = 1
    /\ fres.used = NChannels
    /\ fres.out = 10000

====
